---- MODULE Spec2Model ----
(***************************************************************************)
(* A model of ink-multiline-input.                                         *)
(*                                                                         *)
(* The edit engine is the input handler of the MultilineInput component    *)
(* (src/src/MultilineInput.tsx), which turns decoded key events into       *)
(* buffer edits and cursor moves.  The render segmenter is the useMemo of  *)
(* ControlledMultilineInput (src/src/index.tsx) that splits the buffer     *)
(* into styled segments around the cursor.                                 *)
(*                                                                         *)
(* The viewport controller is the visibleRows useMemo and the scroll       *)
(* effect of ControlledMultilineInput.                                     *)
(*                                                                         *)
(* A string is a sequence of one-character strings.  Six specifications    *)
(* share the variables:                                                    *)
(*   Spec       the owner of the buffer is the controlled wrapper of the   *)
(*              tests: every value the handler hands to onChange becomes   *)
(*              the next `value` prop, and the component is rendered again *)
(*              before the next key event is handled;                      *)
(*   SpecOwner  the owner may also ignore a change or replace the buffer,  *)
(*              and the effect that clamps the cursor is a step of its own;*)
(*   SpecRender the display-only component, rendered with arbitrary props; *)
(*   SpecView   the viewport: height reports of the layout engine and the  *)
(*              scroll effect;                                             *)
(*   SpecBatch  key events that may arrive before the component is         *)
(*              rendered again, each handled by the handler of the last    *)
(*              render;                                                    *)
(*   SpecCycle  the whole component: a key event, the render, the          *)
(*              measurements of the rendered text and the scroll effect.   *)
(***************************************************************************)
EXTENDS Integers, Sequences, FiniteSets, TLC

VARIABLES
    value,        \* the `value` prop: the buffer, owned by the caller
    cursorIndex,  \* useState(value.length)
    pasteLength,  \* useState(0)
    showCursor,   \* the `showCursor` prop
    keyBindings,  \* the `keyBindings` prop: which predicates are configured
    highlightPastedText, \* the `highlightPastedText` prop
    focus,        \* the `focus` prop
    placeholder,  \* the `placeholder` prop of ControlledMultilineInput
    mask,         \* the `mask` prop: << >> when absent
    tabSize,      \* the `tabSize` prop
    highlight,    \* the `highlight` prop of ControlledMultilineInput: << >> when
                  \* undefined, else <<[start |-> .., end |-> ..]>>
    effectPending, \* the clamp effect of the last render has not run yet
    pending,      \* the state updates queued since the last render: << >>, or
                  \* <<[value, cursorIndex, pasteLength]>> the state they lead to
    rows,         \* the `rows` prop: << >> when undefined, else <<n>>
    maxRows,      \* the `maxRows` prop: << >> when undefined, else <<n>>
    contentHeight, \* useState(0): the measured height of the whole content
    markerHeight, \* useState(0): the measured height of the content up to the cursor
    scrollOffset, \* useState(0)
    scrollPending, \* the scroll effect of the last render has not run yet
    measurePending, \* the MeasureBox effects of the last render have not run yet
    layout,       \* the rows the layout engine gave the content and the marker
                  \* in the last render: [content |-> .., marker |-> ..]
    lastScroll,   \* history: << >>, or <<[s, v, m, h]>> the previous offset and the
                  \* measurements of the scroll recomputation that has just run
    lastKey,      \* history: << >> before any event, else <<key>> of the last event
    prev,         \* history: value, cursorIndex, pasteLength when lastKey was handled
    changes,      \* history: the values the last event handed to onChange
    submits       \* history: the values the last event handed to onSubmit

vars == <<value, cursorIndex, pasteLength, showCursor, keyBindings,
          highlightPastedText, focus, placeholder, mask, tabSize, highlight,
          effectPending, pending,
          rows, maxRows, contentHeight, markerHeight, scrollOffset,
          scrollPending, measurePending, layout, lastScroll,
          lastKey, prev, changes, submits>>

\* The variables of the viewport controller.
viewVars == <<rows, maxRows, contentHeight, markerHeight, scrollOffset,
              scrollPending, measurePending, layout, lastScroll>>

----------------------------------------------------------------------------
(* Bounds of the model.                                                    *)

\* A buffer never grows beyond MaxLen characters.
MaxLen == 4
\* A buffer that starts longer than MaxLen (the scenario buffer of the tests)
\* may lose at most MaxDeletes characters.
MaxDeletes == 2

\* A buffer handed to the display-only component has MaxText characters at most.
MaxText == 2
\* The rows and maxRows props are undefined or in 1..MaxRows.
MaxRows == 2
\* The layout engine reports heights in 0..MaxHeight.
MaxHeight == 5

LF == "\n"
CR == "\r"
Alphabet == {"c", LF, CR}

\* "Line1\nLine2", the buffer of the line-merge and vertical-navigation tests.
Line1Line2 == <<"L", "i", "n", "e", "1", LF, "L", "i", "n", "e", "2">>

RECURSIVE StringsOfLen(_)
StringsOfLen(n) ==
    IF n = 0 THEN {<< >>}
    ELSE {Append(s, ch) : s \in StringsOfLen(n - 1), ch \in Alphabet}

Strings == UNION {StringsOfLen(n) : n \in 0..MaxLen}

Min(a, b) == IF a <= b THEN a ELSE b
Max(a, b) == IF a >= b THEN a ELSE b

----------------------------------------------------------------------------
(* Strings.                                                                *)

\* An index argument of slice: a negative one counts from the end, and both
\* kinds are clamped to the string.
SliceIndex(s, i) == IF i < 0 THEN Max(Len(s) + i, 0) ELSE Min(i, Len(s))

\* String.prototype.slice(start, end): the characters with index in [start, end).
Slice(s, start, end) ==
    LET a == SliceIndex(s, start)
        b == SliceIndex(s, end)
    IN  IF a >= b THEN << >> ELSE SubSeq(s, a + 1, b)

\* String.prototype.slice(start)
SliceFrom(s, start) == Slice(s, start, Len(s))

\* text.replace(/\r\n/g, "\n")
RECURSIVE ReplaceCRLF(_)
ReplaceCRLF(s) ==
    IF s = << >> THEN << >>
    ELSE IF Len(s) >= 2 /\ s[1] = CR /\ s[2] = LF
         THEN <<LF>> \o ReplaceCRLF(SubSeq(s, 3, Len(s)))
         ELSE <<s[1]>> \o ReplaceCRLF(Tail(s))

\* text.replace(/\r/g, "\n")
RECURSIVE ReplaceCR(_)
ReplaceCR(s) ==
    IF s = << >> THEN << >>
    ELSE <<IF s[1] = CR THEN LF ELSE s[1]>> \o ReplaceCR(Tail(s))

normalizeLineEndings(text) == ReplaceCR(ReplaceCRLF(text))

\* String.prototype.split("\n")
RECURSIVE SplitLines(_)
SplitLines(s) ==
    IF \A i \in 1..Len(s) : s[i] # LF THEN <<s>>
    ELSE LET i == CHOOSE j \in 1..Len(s) :
                      s[j] = LF /\ \A k \in 1..(j - 1) : s[k] # LF
         IN  <<SubSeq(s, 1, i - 1)>> \o SplitLines(SubSeq(s, i + 1, Len(s)))

----------------------------------------------------------------------------
(* Key events and configuration.                                           *)

\* ink's Key: the flags the handler reads, plus the raw text payload.
Key(flags, input) ==
    [input      |-> input,
     return     |-> "return" \in flags,
     ctrl       |-> "ctrl" \in flags,
     shift      |-> "shift" \in flags,
     tab        |-> "tab" \in flags,
     upArrow    |-> "upArrow" \in flags,
     downArrow  |-> "downArrow" \in flags,
     leftArrow  |-> "leftArrow" \in flags,
     rightArrow |-> "rightArrow" \in flags,
     backspace  |-> "backspace" \in flags,
     delete     |-> "delete" \in flags]

\* The key events delivered to the handler: every single key, the modifier
\* combinations the bindings read, events that satisfy two branches, and
\* control keys that carry a payload.
Keys ==
    { Key({}, <<"c">>), Key({}, <<CR, LF>>), Key({}, << >>),
      Key({"ctrl"}, <<"c">>),
      Key({"return"}, << >>), Key({"return", "ctrl"}, << >>),
      Key({"return", "shift"}, << >>),
      Key({"tab"}, << >>), Key({"tab", "shift"}, << >>), Key({"tab"}, <<"c">>),
      Key({"upArrow"}, << >>), Key({"downArrow"}, << >>),
      Key({"leftArrow"}, << >>), Key({"rightArrow"}, << >>),
      Key({"backspace"}, << >>), Key({"delete"}, << >>),
      Key({"return", "tab"}, << >>), Key({"tab", "upArrow"}, << >>),
      Key({"return", "upArrow"}, << >>), Key({"return", "backspace"}, << >>),
      Key({"backspace"}, <<"c">>), Key({"leftArrow"}, <<"c">>) }

\* keyBindings: "default" is an absent predicate; "return" is the tests' custom
\* submit (key) => key.return; "shiftReturn" is the tests' custom newline
\* (key) => key.return && key.shift.
DefaultBindings == [submit |-> "default", newline |-> "default"]

Configs ==
    { [showCursor |-> TRUE,  highlightPastedText |-> TRUE,
       keyBindings |-> DefaultBindings],
      [showCursor |-> FALSE, highlightPastedText |-> FALSE,
       keyBindings |-> DefaultBindings],
      [showCursor |-> TRUE,  highlightPastedText |-> FALSE,
       keyBindings |-> [submit |-> "return", newline |-> "default"]],
      [showCursor |-> TRUE,  highlightPastedText |-> FALSE,
       keyBindings |-> [submit |-> "default", newline |-> "shiftReturn"]] }

\* keyBindings?.submit ?? ((key) => key.return && key.ctrl)
submitKey(bindings, key) ==
    IF bindings.submit = "return" THEN key.return
    ELSE key.return /\ key.ctrl

\* keyBindings?.newline ?? ((key) => key.return)
newlineKey(bindings, key) ==
    IF bindings.newline = "shiftReturn" THEN key.return /\ key.shift
    ELSE key.return

\* keyBindings?.newline?.(key): undefined (falsy) without a custom predicate
customNewlineKey(bindings, key) ==
    bindings.newline = "shiftReturn" /\ key.return /\ key.shift

\* Mutant: only Tab is ignored.
ignoredKeyTabOnly(key) == key.tab

\* key.tab || (key.shift && key.tab) || (key.ctrl && input === "c")
ignoredKey(key) ==
    key.tab \/ (key.shift /\ key.tab) \/ (key.ctrl /\ key.input = <<"c">>)

\* Mutant: a configured newline predicate replaces the fallback Return branch.
BranchNoFallback(bindings, key) ==
    IF submitKey(bindings, key) THEN "submit"
    ELSE IF newlineKey(bindings, key) THEN "newline"
    ELSE IF ignoredKey(key) THEN "ignored"
    ELSE IF customNewlineKey(bindings, key) THEN "newline"
    ELSE IF key.upArrow THEN "upArrow"
    ELSE IF key.downArrow THEN "downArrow"
    ELSE IF key.leftArrow THEN "leftArrow"
    ELSE IF key.rightArrow THEN "rightArrow"
    ELSE IF key.return /\ bindings.newline = "default" THEN "return"
    ELSE IF key.backspace \/ key.delete THEN "delete"
    ELSE "input"

\* Mutant: the fallback Return branch is tested before the arrow keys.
BranchReturnFirst(bindings, key) ==
    IF submitKey(bindings, key) THEN "submit"
    ELSE IF newlineKey(bindings, key) THEN "newline"
    ELSE IF ignoredKey(key) THEN "ignored"
    ELSE IF customNewlineKey(bindings, key) THEN "newline"
    ELSE IF key.return THEN "return"
    ELSE IF key.upArrow THEN "upArrow"
    ELSE IF key.downArrow THEN "downArrow"
    ELSE IF key.leftArrow THEN "leftArrow"
    ELSE IF key.rightArrow THEN "rightArrow"
    ELSE IF key.backspace \/ key.delete THEN "delete"
    ELSE "input"

\* The branch of the handler a key event runs: the if / else-if chain.
Branch(bindings, key) ==
    IF submitKey(bindings, key) THEN "submit"
    ELSE IF newlineKey(bindings, key) THEN "newline"
    ELSE IF ignoredKey(key) THEN "ignored"
    ELSE IF customNewlineKey(bindings, key) THEN "newline"
    ELSE IF key.upArrow THEN "upArrow"
    ELSE IF key.downArrow THEN "downArrow"
    ELSE IF key.leftArrow THEN "leftArrow"
    ELSE IF key.rightArrow THEN "rightArrow"
    ELSE IF key.return THEN "return"
    ELSE IF key.backspace \/ key.delete THEN "delete"
    ELSE "input"

----------------------------------------------------------------------------
(* The branches.  Each yields what the handler does: the values handed to  *)
(* onChange and onSubmit, and the next cursorIndex and pasteLength (the    *)
(* current ones where the setter is not called).                           *)

Outcome(chg, sub, cur, paste) ==
    [changes |-> chg, submits |-> sub, cursorIndex |-> cur, pasteLength |-> paste]

\* No callback, no setter.
Nothing(cur, paste) == Outcome(<< >>, << >>, cur, paste)

\* Mutant: submitting clears the paste tracking, as the editing branches do.
DoSubmitClearPaste(v, cur, paste) == Outcome(<< >>, <<v>>, cur, 0)

\* onSubmit?.(value); return
DoSubmit(v, cur, paste) == Outcome(<< >>, <<v>>, cur, paste)

\* Mutant: the newline is appended to the buffer instead of spliced at the cursor.
InsertNewlineAtEnd(v, cur) == Outcome(<<v \o <<LF>>>>, << >>, cur + 1, 0)

\* value.slice(0, cursorIndex) + "\n" + value.slice(cursorIndex);
\* setCursorIndex(cursorIndex + 1); setPasteLength(0)
InsertNewline(v, cur) ==
    Outcome(<<Slice(v, 0, cur) \o <<LF>> \o SliceFrom(v, cur)>>, << >>, cur + 1, 0)

\* The loop that finds the current line and column; 0, 0 when no line matches.
RECURSIVE FindLine(_, _, _, _)
FindLine(lines, cur, i, currentPos) ==
    IF i >= Len(lines) THEN [currentLineIndex |-> 0, col |-> 0]
    ELSE LET lineEnd == currentPos + Len(lines[i + 1])
         IN  IF cur >= currentPos /\ cur <= lineEnd
             THEN [currentLineIndex |-> i, col |-> cur - currentPos]
             ELSE FindLine(lines, cur, i + 1, lineEnd + 1)

\* The loop that sums lines[i].length + 1 over i < targetLineIndex.
RECURSIVE LineStart(_, _)
LineStart(lines, targetLineIndex) ==
    IF targetLineIndex = 0 THEN 0
    ELSE LineStart(lines, targetLineIndex - 1) + Len(lines[targetLineIndex]) + 1

\* Mutant: the column is carried over without clamping it to the target line.
NewIndexUnclamped(lines, targetLineIndex, col) ==
    LineStart(lines, targetLineIndex) + col

\* Math.min(col, targetLineLen), then the new absolute index.
NewIndex(lines, targetLineIndex, col) ==
    LineStart(lines, targetLineIndex) + Min(col, Len(lines[targetLineIndex + 1]))

MoveUp(v, cur, paste) ==
    LET lines == SplitLines(normalizeLineEndings(v))
        at    == FindLine(lines, cur, 0, 0)
    IN  IF at.currentLineIndex > 0
        THEN Outcome(<< >>, << >>, NewIndex(lines, at.currentLineIndex - 1, at.col), 0)
        ELSE Nothing(cur, paste)

MoveDown(v, cur, paste) ==
    LET lines == SplitLines(normalizeLineEndings(v))
        at    == FindLine(lines, cur, 0, 0)
    IN  IF at.currentLineIndex < Len(lines) - 1
        THEN Outcome(<< >>, << >>, NewIndex(lines, at.currentLineIndex + 1, at.col), 0)
        ELSE Nothing(cur, paste)

\* Mutant: Left without the lower clamp.
MoveLeftUnclamped(v, cur) == Outcome(<< >>, << >>, cur - 1, 0)

\* setCursorIndex(Math.max(0, cursorIndex - 1)); setPasteLength(0)
MoveLeft(v, cur) == Outcome(<< >>, << >>, Max(0, cur - 1), 0)

\* Mutant: Right without the upper clamp.
MoveRightUnclamped(v, cur) == Outcome(<< >>, << >>, cur + 1, 0)

\* setCursorIndex(Math.min(value.length, cursorIndex + 1)); setPasteLength(0)
MoveRight(v, cur) == Outcome(<< >>, << >>, Min(Len(v), cur + 1), 0)

\* Mutant: a forward delete, which removes the character after the cursor.
DeleteAfter(v, cur, paste) ==
    IF cur < Len(v)
    THEN Outcome(<<Slice(v, 0, cur) \o SliceFrom(v, cur + 1)>>, << >>, cur, 0)
    ELSE Nothing(cur, paste)

\* Mutant: the character is removed but the cursor is not moved back.
DeleteKeepCursor(v, cur, paste) ==
    IF cur > 0
    THEN Outcome(<<Slice(v, 0, cur - 1) \o SliceFrom(v, cur)>>, << >>, cur, 0)
    ELSE Nothing(cur, paste)

\* Mutant: a deletion does not clear the paste tracking.
DeleteKeepPaste(v, cur, paste) ==
    IF cur > 0
    THEN Outcome(<<Slice(v, 0, cur - 1) \o SliceFrom(v, cur)>>, << >>, cur - 1, paste)
    ELSE Nothing(cur, paste)

\* key.backspace || key.delete: remove the character before the cursor
DeleteBefore(v, cur, paste) ==
    IF cur > 0
    THEN Outcome(<<Slice(v, 0, cur - 1) \o SliceFrom(v, cur)>>, << >>, cur - 1, 0)
    ELSE Nothing(cur, paste)

\* let nextPasteLength = 0; if (input.length > 1) nextPasteLength = input.length
NextPasteLength(input) == IF Len(input) > 1 THEN Len(input) ELSE 0

\* Mutant: the cursor advances by one character whatever the payload's length.
InsertTextAdvanceOne(v, cur, paste, input) ==
    IF input # << >>
    THEN Outcome(<<Slice(v, 0, cur) \o input \o SliceFrom(v, cur)>>, << >>,
                 cur + 1, NextPasteLength(input))
    ELSE Nothing(cur, paste)

\* Normal input: if (input) splice it at the cursor
InsertText(v, cur, paste, input) ==
    IF input # << >>
    THEN Outcome(<<Slice(v, 0, cur) \o input \o SliceFrom(v, cur)>>, << >>,
                 cur + Len(input), NextPasteLength(input))
    ELSE Nothing(cur, paste)

\* Mutant: the arrow branches do not test showCursor.
HandleInputAlwaysShown(v, cur, paste, show, bindings, key) ==
    LET b == Branch(bindings, key)
    IN  CASE b = "submit"     -> DoSubmit(v, cur, paste)
          [] b = "newline"    -> InsertNewline(v, cur)
          [] b = "ignored"    -> Nothing(cur, paste)
          [] b = "upArrow"    -> MoveUp(v, cur, paste)
          [] b = "downArrow"  -> MoveDown(v, cur, paste)
          [] b = "leftArrow"  -> MoveLeft(v, cur)
          [] b = "rightArrow" -> MoveRight(v, cur)
          [] b = "return"     -> InsertNewline(v, cur)
          [] b = "delete"     -> DeleteBefore(v, cur, paste)
          [] b = "input"      -> InsertText(v, cur, paste, key.input)

\* The input handler: what one key event does in the current render.
HandleInput(v, cur, paste, show, bindings, key) ==
    LET b == Branch(bindings, key)
    IN  CASE b = "submit"     -> DoSubmit(v, cur, paste)
          [] b = "newline"    -> InsertNewline(v, cur)
          [] b = "ignored"    -> Nothing(cur, paste)
          [] b = "upArrow"    -> IF show THEN MoveUp(v, cur, paste) ELSE Nothing(cur, paste)
          [] b = "downArrow"  -> IF show THEN MoveDown(v, cur, paste) ELSE Nothing(cur, paste)
          [] b = "leftArrow"  -> IF show THEN MoveLeft(v, cur) ELSE Nothing(cur, paste)
          [] b = "rightArrow" -> IF show THEN MoveRight(v, cur) ELSE Nothing(cur, paste)
          [] b = "return"     -> InsertNewline(v, cur)
          [] b = "delete"     -> DeleteBefore(v, cur, paste)
          [] b = "input"      -> InsertText(v, cur, paste, key.input)

----------------------------------------------------------------------------
(* What MultilineInput derives from its state in every render.             *)

\* Mutant: the paste is highlighted whether or not highlightPastedText is set.
PasteHighlightAlways(enabled, cur, paste) ==
    IF paste > 1
    THEN <<[start |-> Max(0, cur - paste), end |-> cur]>>
    ELSE << >>

\* The useMemo that computes the paste highlight handed to the renderer.
PasteHighlight(enabled, cur, paste) ==
    IF enabled /\ paste > 1
    THEN <<[start |-> Max(0, cur - paste), end |-> cur]>>
    ELSE << >>

\* Mutant: the clamp effect does nothing.
ClampCursorNever(v, cur) == cur

\* The body of the clamp effect: if (cursorIndex > value.length)
\* setCursorIndex(value.length).
ClampCursor(v, cur) == IF cur > Len(v) THEN Len(v) ELSE cur

----------------------------------------------------------------------------
(* The render segmenter of ControlledMultilineInput.                       *)

TAB == "\t"
SPACE == " "

\* " ".repeat(n)
RECURSIVE Spaces(_)
Spaces(n) == IF n <= 0 THEN << >> ELSE <<SPACE>> \o Spaces(n - 1)

\* text.replace(/\t/g, " ".repeat(tabSize))
RECURSIVE expandTabs(_, _)
expandTabs(text, size) ==
    IF text = << >> THEN << >>
    ELSE (IF text[1] = TAB THEN Spaces(size) ELSE <<text[1]>>)
         \o expandTabs(Tail(text), size)

\* normalized.replace(/[^\n]/g, mask)
RECURSIVE ApplyMask(_, _)
ApplyMask(text, m) ==
    IF text = << >> THEN << >>
    ELSE (IF text[1] = LF THEN <<LF>> ELSE m) \o ApplyMask(Tail(text), m)

\* Mutant: the mask is applied after the tabs are expanded.
formatTextMaskExpanded(text, isPlaceholder, m, size) ==
    IF ~isPlaceholder /\ m # << >>
    THEN ApplyMask(expandTabs(normalizeLineEndings(text), size), m)
    ELSE expandTabs(normalizeLineEndings(text), size)

\* Mutant: a placeholder is returned as it is.
formatTextPlaceholderVerbatim(text, isPlaceholder, m, size) ==
    IF isPlaceholder THEN text
    ELSE IF m # << >>
    THEN ApplyMask(normalizeLineEndings(text), m)
    ELSE expandTabs(normalizeLineEndings(text), size)

\* formatText(text, isPlaceholder): normalize the line endings, then mask the
\* text or expand its tabs.
formatText(text, isPlaceholder, m, size) ==
    IF ~isPlaceholder /\ m # << >>
    THEN ApplyMask(normalizeLineEndings(text), m)
    ELSE expandTabs(normalizeLineEndings(text), size)

\* String.prototype.lastIndexOf("\n"): 0-based, -1 when there is none.
LastIndexOfLF(s) ==
    IF \A i \in 1..Len(s) : s[i] # LF THEN -1
    ELSE (CHOOSE i \in 1..Len(s) : s[i] = LF /\ \A j \in (i + 1)..Len(s) : s[j] # LF) - 1

\* String.prototype.indexOf("\n"): 0-based, -1 when there is none.
IndexOfLF(s) ==
    IF \A i \in 1..Len(s) : s[i] # LF THEN -1
    ELSE (CHOOSE i \in 1..Len(s) : s[i] = LF /\ \A j \in 1..(i - 1) : s[j] # LF) - 1

\* A StyledText; the type of a segment without a type is "plain".
Segment(text, type) == [value |-> text, type |-> type]

\* Mutant: a range that ends past the buffer is taken as valid.
hasValidHighlightAnyEnd(v, hl) ==
    /\ hl # << >>
    /\ hl[1].end > hl[1].start
    /\ hl[1].start >= 0

\* highlight && highlight.end > highlight.start && highlight.start >= 0
\*           && highlight.end <= value.length
hasValidHighlight(v, hl) ==
    /\ hl # << >>
    /\ hl[1].end > hl[1].start
    /\ hl[1].start >= 0
    /\ hl[1].end <= Len(v)

\* Mutant: the placeholder is shown whether or not the input is focused.
EmptySegmentsPlaceholderFocused(foc, ph, m, size) ==
    IF ph # << >>
    THEN [preCursor  |-> <<Segment(formatText(ph, TRUE, m, size), "placeholder")>>,
          postCursor |-> << >>]
    ELSE [preCursor  |-> <<Segment(<<SPACE>>, "cursor")>>,
          postCursor |-> << >>]

\* Empty buffer: the placeholder when there is one and the input is not
\* focused, else the cursor glyph.
EmptySegments(foc, ph, m, size) ==
    IF ph # << >> /\ ~foc
    THEN [preCursor  |-> <<Segment(formatText(ph, TRUE, m, size), "placeholder")>>,
          postCursor |-> << >>]
    ELSE [preCursor  |-> <<Segment(<<SPACE>>, "cursor")>>,
          postCursor |-> << >>]

\* Mutant: the cursor glyph of the current-line branch does not depend on
\* showCursor.
CursorLineSegmentsAlwaysGlyph(textBefore, textAfter, show, foc, m, size) ==
    LET formattedBefore == formatText(textBefore, FALSE, m, size)
        formattedAfter  == formatText(textAfter, FALSE, m, size)
        lineStart       == LastIndexOfLF(formattedBefore) + 1
        lineEnd         == IndexOfLF(formattedAfter)
    IN  [preCursor  |->
            << Segment(Slice(formattedBefore, 0, lineStart), "plain"),
               Segment(SliceFrom(formattedBefore, lineStart), "highlight"),
               Segment(<<SPACE>>, "cursor") >>,
         postCursor |->
            << Segment(Slice(formattedAfter, 0, lineEnd), "highlight"),
               Segment(SliceFrom(formattedAfter, lineEnd), "plain") >>]

\* Focused, no valid explicit highlight: the line of the cursor is highlighted.
CursorLineSegments(textBefore, textAfter, show, foc, m, size) ==
    LET formattedBefore == formatText(textBefore, FALSE, m, size)
        formattedAfter  == formatText(textAfter, FALSE, m, size)
        lineStart       == LastIndexOfLF(formattedBefore) + 1
        lineEnd         == IndexOfLF(formattedAfter)
    IN  [preCursor  |->
            << Segment(Slice(formattedBefore, 0, lineStart), "plain"),
               Segment(SliceFrom(formattedBefore, lineStart), "highlight"),
               Segment(IF show /\ foc THEN <<SPACE>> ELSE << >>, "cursor") >>,
         postCursor |->
            << Segment(Slice(formattedAfter, 0, lineEnd), "highlight"),
               Segment(SliceFrom(formattedAfter, lineEnd), "plain") >>]

\* Mutant: after the cursor the highlight starts at the cursor, not at the
\* start of the range.
RangeSegmentsFromCursor(textBefore, textAfter, cur, h, m, size) ==
    [preCursor  |->
        << Segment(formatText(Slice(textBefore, 0, h.start), FALSE, m, size), "plain"),
           Segment(formatText(Slice(textBefore, h.start, Min(h.end, cur)),
                              FALSE, m, size), "highlight"),
           Segment(formatText(SliceFrom(textBefore, h.end), FALSE, m, size), "plain"),
           Segment(<<SPACE>>, "cursor") >>,
     postCursor |->
        << Segment(formatText(Slice(textAfter, 0, Max(h.start - cur, 0)),
                              FALSE, m, size), "plain"),
           Segment(formatText(Slice(textAfter, 0, Max(h.end - cur, 0)),
                              FALSE, m, size), "highlight"),
           Segment(formatText(SliceFrom(textAfter, Max(h.end - cur, 0)),
                              FALSE, m, size), "plain") >>]

\* Focused, valid explicit highlight range h.
RangeSegments(textBefore, textAfter, cur, h, m, size) ==
    [preCursor  |->
        << Segment(formatText(Slice(textBefore, 0, h.start), FALSE, m, size), "plain"),
           Segment(formatText(Slice(textBefore, h.start, Min(h.end, cur)),
                              FALSE, m, size), "highlight"),
           Segment(formatText(SliceFrom(textBefore, h.end), FALSE, m, size), "plain"),
           Segment(<<SPACE>>, "cursor") >>,
     postCursor |->
        << Segment(formatText(Slice(textAfter, 0, Max(h.start - cur, 0)),
                              FALSE, m, size), "plain"),
           Segment(formatText(Slice(textAfter, Max(h.start - cur, 0),
                                    Max(h.end - cur, 0)), FALSE, m, size), "highlight"),
           Segment(formatText(SliceFrom(textAfter, Max(h.end - cur, 0)),
                              FALSE, m, size), "plain") >>]

\* Mutant: an unfocused input is segmented like a focused one.
SegmentsIgnoreFocus(v, cur, show, foc, ph, m, size, hl) ==
    IF v = << >> THEN EmptySegments(foc, ph, m, size)
    ELSE IF ~hasValidHighlight(v, hl)
         THEN CursorLineSegments(Slice(v, 0, cur), SliceFrom(v, cur), show, foc, m, size)
    ELSE RangeSegments(Slice(v, 0, cur), SliceFrom(v, cur), cur, hl[1], m, size)

\* The useMemo that yields { preCursor, postCursor }.
Segments(v, cur, show, foc, ph, m, size, hl) ==
    IF v = << >> THEN EmptySegments(foc, ph, m, size)
    ELSE IF ~foc
         THEN [preCursor  |-> <<Segment(formatText(v, FALSE, m, size), "plain")>>,
               postCursor |-> << >>]
    ELSE IF ~hasValidHighlight(v, hl)
         THEN CursorLineSegments(Slice(v, 0, cur), SliceFrom(v, cur), show, foc, m, size)
    ELSE RangeSegments(Slice(v, 0, cur), SliceFrom(v, cur), cur, hl[1], m, size)

\* The memoized segments of the current render.  Every input of Segments is
\* a dependency of the useMemo, so its value is a function of the current props.
preCursor ==
    Segments(value, cursorIndex, showCursor, focus, placeholder, mask, tabSize,
             highlight).preCursor
postCursor ==
    Segments(value, cursorIndex, showCursor, focus, placeholder, mask, tabSize,
             highlight).postCursor

----------------------------------------------------------------------------
(* The state machine.                                                      *)

\* The owner's next buffer: the last value handed to onChange, if any.
NextValue(v, out) == IF out.changes = << >> THEN v ELSE out.changes[Len(out.changes)]

\* The bound of the exploration: buffers grow to MaxLen at most, and a longer
\* initial buffer never grows and shrinks by MaxDeletes characters at most.
WithinBounds(v, w) ==
    \/ Len(w) <= MaxLen
    \/ Len(w) <= Len(v) /\ Len(w) >= Len(Line1Line2) - MaxDeletes

\* The viewport of a component that has just been mounted without rows and
\* maxRows: nothing measured, nothing scrolled.
Unscrolled ==
    /\ rows = << >>
    /\ maxRows = << >>
    /\ contentHeight = 0
    /\ markerHeight = 0
    /\ scrollOffset = 0
    /\ scrollPending = FALSE
    /\ measurePending = FALSE
    /\ layout = [content |-> 0, marker |-> 0]
    /\ lastScroll = << >>

Init ==
    /\ \/ /\ value \in Strings
          /\ \E cfg \in Configs :
                /\ showCursor = cfg.showCursor
                /\ highlightPastedText = cfg.highlightPastedText
                /\ keyBindings = cfg.keyBindings
       \/ /\ value = Line1Line2
          /\ showCursor = TRUE
          /\ highlightPastedText = FALSE
          /\ keyBindings = DefaultBindings
    /\ focus = TRUE
    /\ placeholder = << >>
    /\ mask = << >>
    /\ tabSize = 4
    /\ cursorIndex = Len(value)
    /\ pasteLength = 0
    /\ highlight = PasteHighlight(highlightPastedText, cursorIndex, pasteLength)
    /\ effectPending = FALSE
    /\ pending = << >>
    /\ Unscrolled
    /\ lastKey = << >>
    /\ prev = [value |-> value, cursorIndex |-> cursorIndex, pasteLength |-> pasteLength]
    /\ changes = << >>
    /\ submits = << >>

\* One key event: the handler runs, the owner takes the emitted value, and the
\* component is rendered with the new state, which recomputes the paste
\* highlight.
\* The effect that clamps cursorIndex to value.length (lines 81-85) runs after
\* that render; with this owner cursorIndex <= Len(value) in every state, so
\* its condition is never true here.
\* The handler is active only while the input has the focus.
KeyEvent(key) ==
    \E out \in {HandleInput(value, cursorIndex, pasteLength, showCursor, keyBindings, key)} :
        /\ focus
        /\ ~effectPending
        /\ WithinBounds(value, NextValue(value, out))
        /\ value' = NextValue(value, out)
        /\ cursorIndex' = out.cursorIndex
        /\ pasteLength' = out.pasteLength
        /\ highlight' = PasteHighlight(highlightPastedText, out.cursorIndex, out.pasteLength)
        /\ changes' = out.changes
        /\ submits' = out.submits
        /\ lastKey' = <<key>>
        /\ prev' = [value |-> value, cursorIndex |-> cursorIndex,
                    pasteLength |-> pasteLength]
        /\ UNCHANGED <<showCursor, keyBindings, highlightPastedText, focus,
                       placeholder, mask, tabSize, effectPending, pending>>
        /\ UNCHANGED viewVars

\* The key events that run branch b, for each configuration of the bindings.
BranchKeys ==
    [bindings \in {cfg.keyBindings : cfg \in Configs} |->
        [b \in {Branch(bindings, key) : key \in Keys} |->
            {key \in Keys : Branch(bindings, key) = b}]]

KeysOf(b) ==
    IF b \in DOMAIN BranchKeys[keyBindings] THEN BranchKeys[keyBindings][b] ELSE {}

Submit         == \E key \in KeysOf("submit") : KeyEvent(key)
Newline        == \E key \in KeysOf("newline") : KeyEvent(key)
IgnoredKey     == \E key \in KeysOf("ignored") : KeyEvent(key)
UpArrow        == \E key \in KeysOf("upArrow") : KeyEvent(key)
DownArrow      == \E key \in KeysOf("downArrow") : KeyEvent(key)
LeftArrow      == \E key \in KeysOf("leftArrow") : KeyEvent(key)
RightArrow     == \E key \in KeysOf("rightArrow") : KeyEvent(key)
FallbackReturn == \E key \in KeysOf("return") : KeyEvent(key)
Delete         == \E key \in KeysOf("delete") : KeyEvent(key)
TextInput      == \E key \in KeysOf("input") : KeyEvent(key)

Next ==
    \/ Submit
    \/ Newline
    \/ IgnoredKey
    \/ UpArrow
    \/ DownArrow
    \/ LeftArrow
    \/ RightArrow
    \/ FallbackReturn
    \/ Delete
    \/ TextInput

Spec == Init /\ [][Next]_vars

----------------------------------------------------------------------------
(* SpecOwner: an owner that is free to ignore a change or to replace the   *)
(* buffer.  The clamp effect, useEffect(..., [value, cursorIndex]), is     *)
(* pending after every render in which value or cursorIndex changed; React *)
(* runs the effects of a render before it processes the next update, so    *)
(* the other actions wait for it.                                          *)

\* One key event; the owner takes the emitted value if `accepts`.
OwnerKeyEvent(key, accepts) ==
    \E out \in {HandleInput(value, cursorIndex, pasteLength, showCursor, keyBindings, key)} :
        /\ focus
        /\ ~effectPending
        /\ accepts \/ out.changes # << >>
        /\ WithinBounds(value, NextValue(value, out))
        /\ value' = (IF accepts THEN NextValue(value, out) ELSE value)
        /\ cursorIndex' = out.cursorIndex
        /\ pasteLength' = out.pasteLength
        /\ highlight' = PasteHighlight(highlightPastedText, out.cursorIndex, out.pasteLength)
        /\ effectPending' = (value' # value \/ cursorIndex' # cursorIndex)
        /\ changes' = out.changes
        /\ submits' = out.submits
        /\ lastKey' = <<key>>
        /\ prev' = [value |-> value, cursorIndex |-> cursorIndex,
                    pasteLength |-> pasteLength]
        /\ UNCHANGED <<showCursor, keyBindings, highlightPastedText, focus,
                       placeholder, mask, tabSize, pending>>
        /\ UNCHANGED viewVars

\* A key event whose change, if any, becomes the next buffer.
OwnerAccepts == \E key \in Keys : OwnerKeyEvent(key, TRUE)

\* A key event whose change the owner drops: the buffer stays as it was.
OwnerIgnores == \E key \in Keys : OwnerKeyEvent(key, FALSE)

\* The buffers the owner replaces v with: the substrings of v, among them the
\* empty buffer and every truncation.
Replacements(v) ==
    {SubSeq(v, a, b) : a \in 1..(Len(v) + 1), b \in 0..Len(v)} \ {v}

\* The owner renders the component with another buffer.
OwnerReplaces ==
    \E w \in Replacements(value) :
        /\ ~effectPending
        /\ value' = w
        /\ effectPending' = TRUE
        /\ lastKey' = << >>
        /\ prev' = [value |-> w, cursorIndex |-> cursorIndex,
                    pasteLength |-> pasteLength]
        /\ changes' = << >>
        /\ submits' = << >>
        /\ UNCHANGED <<cursorIndex, pasteLength, highlight, showCursor, keyBindings,
                       highlightPastedText, focus, placeholder, mask, tabSize, pending>>
        /\ UNCHANGED viewVars

\* The clamp effect runs; setCursorIndex with a new value renders again, and
\* the effect of that render is pending in turn.
ClampEffect ==
    /\ effectPending
    /\ cursorIndex' = ClampCursor(value, cursorIndex)
    /\ highlight' = PasteHighlight(highlightPastedText, cursorIndex', pasteLength)
    /\ effectPending' = (cursorIndex' # cursorIndex)
    /\ UNCHANGED <<value, pasteLength, showCursor, keyBindings, highlightPastedText,
                   focus, placeholder, mask, tabSize, pending, lastKey, prev, changes,
                   submits>>
    /\ UNCHANGED viewVars

NextOwner ==
    \/ OwnerAccepts
    \/ OwnerIgnores
    \/ OwnerReplaces
    \/ ClampEffect

\* The component is mounted with the default key bindings and a cursor.
InitOwner == Init /\ keyBindings = DefaultBindings /\ showCursor /\ Len(value) <= MaxLen

\* A pending effect is run: React does not leave it waiting forever.
SpecOwner == InitOwner /\ [][NextOwner]_vars /\ WF_vars(ClampEffect)

----------------------------------------------------------------------------
(* SpecBatch: key events delivered back to back.  The handler is a closure *)
(* of the render that created it: it reads the value, cursorIndex and      *)
(* pasteLength of that render and calls the setters with values computed   *)
(* from them.  React queues the updates; whether the component is rendered *)
(* between two events depends on how the input hook delivers them, so a    *)
(* render is a step of its own and an event may be handled before it.      *)

\* Whether the branch the event runs calls setCursorIndex and setPasteLength.
SetsCursor(v, cur, paste, show, bindings, key) ==
    LET b == Branch(bindings, key)
    IN  CASE b \in {"newline", "return"} -> TRUE
          [] b \in {"upArrow", "downArrow"} ->
                HandleInput(v, cur, paste, show, bindings, key).cursorIndex # cur
          [] b \in {"leftArrow", "rightArrow"} -> show
          [] b = "delete" -> cur > 0
          [] b = "input" -> key.input # << >>
          [] OTHER -> FALSE

\* The state of the last render.
Rendered == [value |-> value, cursorIndex |-> cursorIndex, pasteLength |-> pasteLength]

\* The state the queued updates lead to.
Latest == IF pending = << >> THEN Rendered ELSE pending[1]

\* The handler of the last render handles a key event: its setter calls and
\* the owner's update of the buffer are queued.
Deliver(key) ==
    \E out \in {HandleInput(value, cursorIndex, pasteLength, showCursor, keyBindings, key)} :
      \E sets \in {SetsCursor(value, cursorIndex, pasteLength, showCursor, keyBindings, key)} :
      \E next \in {[value |-> IF out.changes # << >> THEN NextValue(value, out)
                                ELSE Latest.value,
                     cursorIndex |-> IF sets THEN out.cursorIndex ELSE Latest.cursorIndex,
                     pasteLength |-> IF sets THEN out.pasteLength ELSE Latest.pasteLength]} :
        /\ focus
        /\ ~effectPending
        /\ WithinBounds(value, NextValue(value, out))
        /\ pending' = (IF pending = << >> /\ next = Rendered THEN << >> ELSE <<next>>)
        /\ changes' = out.changes
        /\ submits' = out.submits
        /\ lastKey' = <<key>>
        /\ prev' = Rendered
        /\ UNCHANGED <<value, cursorIndex, pasteLength, highlight, showCursor,
                       keyBindings, highlightPastedText, focus, placeholder, mask,
                       tabSize, effectPending>>
        /\ UNCHANGED viewVars

BatchDeliver == \E key \in Keys : Deliver(key)

\* React renders the component with the queued updates and runs the clamp
\* effect of that render.
BatchRender ==
    /\ pending # << >>
    /\ value' = pending[1].value
    /\ cursorIndex' = ClampCursor(pending[1].value, pending[1].cursorIndex)
    /\ pasteLength' = pending[1].pasteLength
    /\ highlight' = PasteHighlight(highlightPastedText, cursorIndex', pasteLength')
    /\ pending' = << >>
    /\ UNCHANGED <<showCursor, keyBindings, highlightPastedText, focus, placeholder,
                   mask, tabSize, effectPending, lastKey, prev, changes, submits>>
    /\ UNCHANGED viewVars

NextBatch ==
    \/ BatchDeliver
    \/ BatchRender

\* The component is mounted with the default key bindings and a cursor.
InitBatch == Init /\ keyBindings = DefaultBindings /\ showCursor /\ Len(value) <= MaxLen

SpecBatch == InitBatch /\ [][NextBatch]_vars

----------------------------------------------------------------------------
(* SpecRender: the display-only component.  ControlledMultilineInput is    *)
(* rendered with any buffer, cursor offset (in range or not), focus, and   *)
(* highlight range; each step renders it again with one prop changed.      *)

RenderAlphabet == {"c", LF, CR, TAB}

RECURSIVE TextsOfLen(_)
TextsOfLen(n) ==
    IF n = 0 THEN {<< >>}
    ELSE {Append(s, ch) : s \in TextsOfLen(n - 1), ch \in RenderAlphabet}

Texts == UNION {TextsOfLen(n) : n \in 0..MaxText}

\* Cursor offsets: in range, negative, and past the end of the buffer.
CursorIndexes == (-MaxText - 1)..(MaxText + 1)

\* Highlight props: undefined, and ranges valid or not for the buffer.
Highlights ==
    {<< >>} \cup {<<[start |-> a, end |-> b]>> : a \in (-1)..MaxText, b \in 0..(MaxText + 1)}

\* placeholder, mask and tabSize props.
Displays ==
    { [placeholder |-> << >>,          mask |-> << >>,    tabSize |-> 4],
      [placeholder |-> <<TAB, "p">>,   mask |-> << >>,    tabSize |-> 2],
      [placeholder |-> << >>,          mask |-> <<"*">>,  tabSize |-> 4],
      [placeholder |-> <<TAB, "p">>,   mask |-> <<"*">>,  tabSize |-> 2] }

\* The variables of the edit engine, which this component does not have.
NoEditState ==
    /\ pasteLength = 0
    /\ keyBindings = DefaultBindings
    /\ highlightPastedText = FALSE
    /\ effectPending = FALSE
    /\ pending = << >>
    /\ lastKey = << >>
    /\ prev = [value |-> << >>, cursorIndex |-> 0, pasteLength |-> 0]
    /\ changes = << >>
    /\ submits = << >>

editVars == <<pasteLength, keyBindings, highlightPastedText, effectPending,
              pending, lastKey, prev, changes, submits>>

\* The props of the display-only component that the segmenter reads.
renderVars == <<value, cursorIndex, showCursor, focus, highlight, placeholder,
                mask, tabSize>>

InitRender ==
    /\ value \in Texts
    /\ cursorIndex \in CursorIndexes
    /\ showCursor \in BOOLEAN
    /\ focus \in BOOLEAN
    /\ highlight \in Highlights
    /\ \E d \in Displays :
          /\ placeholder = d.placeholder
          /\ mask = d.mask
          /\ tabSize = d.tabSize
    /\ NoEditState
    /\ Unscrolled

\* The owner appends a character to the buffer or removes its last one.
SetValue ==
    /\ \E w \in {Append(value, ch) : ch \in RenderAlphabet}
                \cup {SubSeq(value, 1, Len(value) - 1)} :
          /\ w # value /\ Len(w) <= MaxText
          /\ value' = w
    /\ UNCHANGED <<cursorIndex, showCursor, focus, highlight, placeholder, mask,
                   tabSize, editVars, viewVars>>

\* The owner moves the cursor by one.
SetCursorIndex ==
    /\ \E c \in {cursorIndex - 1, cursorIndex + 1} \cap CursorIndexes :
          cursorIndex' = c
    /\ UNCHANGED <<value, showCursor, focus, highlight, placeholder, mask,
                   tabSize, editVars, viewVars>>

SetFocus ==
    /\ focus' = ~focus
    /\ UNCHANGED <<value, cursorIndex, showCursor, highlight, placeholder, mask,
                   tabSize, editVars, viewVars>>

SetShowCursor ==
    /\ showCursor' = ~showCursor
    /\ UNCHANGED <<value, cursorIndex, focus, highlight, placeholder, mask,
                   tabSize, editVars, viewVars>>

\* The owner sets or clears the highlight, or moves one end of it by one.
SetHighlight ==
    /\ \E h \in Highlights :
          /\ h # highlight
          /\ IF h = << >> \/ highlight = << >> THEN TRUE
             ELSE \/ /\ h[1].start - highlight[1].start \in {-1, 1}
                     /\ h[1].end = highlight[1].end
                  \/ /\ h[1].end - highlight[1].end \in {-1, 1}
                     /\ h[1].start = highlight[1].start
          /\ highlight' = h
    /\ UNCHANGED <<value, cursorIndex, showCursor, focus, placeholder, mask,
                   tabSize, editVars, viewVars>>

SetDisplay ==
    /\ \E d \in Displays :
          /\ <<d.placeholder, d.mask>> # <<placeholder, mask>>
          /\ placeholder' = d.placeholder
          /\ mask' = d.mask
          /\ tabSize' = d.tabSize
    /\ UNCHANGED <<value, cursorIndex, showCursor, focus, highlight, editVars,
                   viewVars>>

NextRender ==
    \/ SetValue
    \/ SetCursorIndex
    \/ SetFocus
    \/ SetShowCursor
    \/ SetHighlight
    \/ SetDisplay

SpecRender == InitRender /\ [][NextRender]_vars

----------------------------------------------------------------------------
(* The viewport controller of ControlledMultilineInput.                    *)

\* x ?? y, for props that are << >> when undefined.
Coalesce(x, y) == IF x # << >> THEN x ELSE y

\* Mutant: the configured minimum is not applied.
VisibleRowsNoMinimum(r, mr, h) ==
    Min(Coalesce(mr, Coalesce(r, <<1>>))[1], h)

\* Mutant: the minimum is taken from maxRows before rows.
VisibleRowsMaxFirst(r, mr, h) ==
    Max(Coalesce(mr, Coalesce(r, <<1>>))[1],
        Min(Coalesce(mr, Coalesce(r, <<1>>))[1], h))

\* The visibleRows useMemo:
\* Math.max(rows ?? maxRows ?? 1, Math.min(maxRows ?? rows ?? 1, contentHeight)).
VisibleRows(r, mr, h) ==
    Max(Coalesce(r, Coalesce(mr, <<1>>))[1],
        Min(Coalesce(mr, Coalesce(r, <<1>>))[1], h))

\* The memoized visibleRows of the current render.
visibleRows == VisibleRows(rows, maxRows, contentHeight)

\* Mutant: a cursor above the window is not brought back to its top row.
NextScrollOffsetAboveKept(prevOffset, v, m, h) ==
    IF m <= prevOffset THEN Max(0, m)
    ELSE IF m > prevOffset + v THEN m - v
    ELSE IF h # 0 /\ h < v THEN 0
    ELSE IF h # 0 /\ h < prevOffset + v THEN h - v
    ELSE prevOffset

\* Mutant: a cursor below the window does not scroll it.
NextScrollOffsetNoScrollDown(prevOffset, v, m, h) ==
    IF m <= prevOffset THEN Max(0, m - 1)
    ELSE IF h # 0 /\ h < v THEN 0
    ELSE IF h # 0 /\ h < prevOffset + v THEN h - v
    ELSE prevOffset

\* Mutant: a window that extends past the end of the content is not pulled back.
NextScrollOffsetNoPullBack(prevOffset, v, m, h) ==
    IF m <= prevOffset THEN Max(0, m - 1)
    ELSE IF m > prevOffset + v THEN m - v
    ELSE IF h # 0 /\ h < v THEN 0
    ELSE prevOffset

\* Mutant: a cursor above the window is followed without the floor at 0.
NextScrollOffsetNoFloor(prevOffset, v, m, h) ==
    IF m <= prevOffset THEN m - 1
    ELSE IF m > prevOffset + v THEN m - v
    ELSE IF h # 0 /\ h < v THEN 0
    ELSE IF h # 0 /\ h < prevOffset + v THEN h - v
    ELSE prevOffset

\* The updater handed to setScrollOffset by the scroll effect, with
\* cursorLineEnd = markerHeight; `else if (contentHeight)` is false for 0.
NextScrollOffset(prevOffset, v, m, h) ==
    IF m <= prevOffset THEN Max(0, m - 1)
    ELSE IF m > prevOffset + v THEN m - v
    ELSE IF h # 0 /\ h < v THEN 0
    ELSE IF h # 0 /\ h < prevOffset + v THEN h - v
    ELSE prevOffset

----------------------------------------------------------------------------
(* SpecView: the viewport.  A change of the buffer, of the cursor or of    *)
(* the terminal shows here as the heights the layout engine gives the two  *)
(* MeasureBox elements; their effects run in one flush and hand both       *)
(* heights to the component.  The scroll effect,                           *)
(* useEffect(..., [markerHeight, visibleRows, contentHeight]), is pending  *)
(* after the mount and after every render in which one of the three        *)
(* changed; React runs it before it processes the next update.             *)

RowsProps == {<< >>} \cup {<<n>> : n \in 1..MaxRows}
Heights == 0..MaxHeight

\* The props of the segmenter, which the viewport does not read.
NoRenderProps ==
    /\ value = << >>
    /\ cursorIndex = 0
    /\ showCursor = TRUE
    /\ focus = TRUE
    /\ highlight = << >>
    /\ placeholder = << >>
    /\ mask = << >>
    /\ tabSize = 4

InitView ==
    /\ rows \in RowsProps
    /\ maxRows \in RowsProps
    /\ contentHeight = 0
    /\ markerHeight = 0
    /\ scrollOffset = 0
    /\ scrollPending = TRUE
    /\ measurePending = FALSE
    /\ layout = [content |-> 0, marker |-> 0]
    /\ lastScroll = << >>
    /\ NoRenderProps
    /\ NoEditState

\* The MeasureBox effects report the heights of the content and of the
\* marker: onHeightChange is called for each height that changed.
Report ==
    /\ ~scrollPending
    /\ \E h \in Heights, m \in Heights :
          /\ <<h, m>> # <<contentHeight, markerHeight>>
          /\ contentHeight' = h
          /\ markerHeight' = m
    /\ scrollPending' = TRUE
    /\ lastScroll' = << >>
    /\ UNCHANGED <<rows, maxRows, scrollOffset, measurePending, layout, renderVars,
                   editVars>>

\* The owner renders the component with another rows or maxRows.
SetRows ==
    /\ ~scrollPending
    /\ \E r \in RowsProps, mr \in RowsProps :
          /\ (r = rows) # (mr = maxRows)
          /\ rows' = r
          /\ maxRows' = mr
          /\ scrollPending' = (VisibleRows(r, mr, contentHeight) # visibleRows)
    /\ lastScroll' = << >>
    /\ UNCHANGED <<contentHeight, markerHeight, scrollOffset, measurePending, layout,
                   renderVars, editVars>>

\* The scroll effect runs: setScrollOffset((prevOffset) => ...).
Rescroll ==
    /\ scrollPending
    /\ scrollOffset' =
          NextScrollOffset(scrollOffset, visibleRows, markerHeight, contentHeight)
    /\ scrollPending' = FALSE
    /\ lastScroll' = <<[s |-> scrollOffset, v |-> visibleRows,
                        m |-> markerHeight, h |-> contentHeight]>>
    /\ UNCHANGED <<rows, maxRows, contentHeight, markerHeight, measurePending, layout,
                   renderVars, editVars>>

NextView ==
    \/ Report
    \/ SetRows
    \/ Rescroll

\* A pending effect is run: React does not leave it waiting forever.
SpecView == InitView /\ [][NextView]_vars /\ WF_vars(Rescroll)

----------------------------------------------------------------------------
(* SpecCycle: the whole component, from a key event to the scrolled        *)
(* viewport.  MultilineInput renders ControlledMultilineInput with its     *)
(* buffer, cursor and paste highlight; after every render the effects of   *)
(* the two MeasureBox elements measure the content and the marker, and     *)
(* the scroll effect of the parent runs after them when one of its         *)
(* dependencies changed.  React runs the effects of a render before it     *)
(* handles the next event.  The terminal is wide enough for every line,    *)
(* so a text takes one row per line, as in the MeasureBox of the tests.    *)

\* The rows a text takes: text.split("\n").length.
Layout(text) == Cardinality({i \in 1..Len(text) : text[i] = LF}) + 1

\* The text of the <Text> elements the segments are mapped to.
RECURSIVE AllText(_)
AllText(segs) ==
    IF segs = << >> THEN << >> ELSE Head(segs).value \o AllText(Tail(segs))

\* The rows of the content and of the marker of a render:
\* what measureElement gives for the two MeasureBox elements.
LayoutOf(segs) ==
    [content |-> Layout(AllText(segs.preCursor \o segs.postCursor)),
     marker  |-> Layout(AllText(segs.preCursor))]

\* Mutant: every measurement is reported.
HeightChangedAlways(last, height) == TRUE

\* if (lastHeightRef.current !== height): the height is reported when it is
\* not the last reported one.  After the first measurement the last reported
\* height is the height the component holds in its state.
HeightChanged(last, height) == last # height

\* Mutant: the scroll effect runs after every render.
DepsChangedAlways(old, new) == TRUE

\* The dependency check of the scroll effect:
\* [markerHeight, visibleRows, contentHeight].
DepsChanged(old, new) == old # new

\* The keys of an editing session: a character, Enter, a pasted line break,
\* the arrows and Backspace.
CycleKeys ==
    { Key({}, <<"c">>), Key({"return"}, << >>), Key({}, <<CR, LF>>),
      Key({"upArrow"}, << >>), Key({"downArrow"}, << >>),
      Key({"leftArrow"}, << >>), Key({"rightArrow"}, << >>),
      Key({"backspace"}, << >>) }

\* One key event, and the render that follows when it changed the state.
CycleKey ==
    \E key \in CycleKeys :
      \E out \in {HandleInput(value, cursorIndex, pasteLength, showCursor, keyBindings, key)} :
        /\ focus
        /\ ~measurePending
        /\ ~scrollPending
        /\ WithinBounds(value, NextValue(value, out))
        /\ value' = NextValue(value, out)
        /\ cursorIndex' = out.cursorIndex
        /\ pasteLength' = out.pasteLength
        /\ highlight' = PasteHighlight(highlightPastedText, out.cursorIndex, out.pasteLength)
        /\ changes' = out.changes
        /\ submits' = out.submits
        /\ lastKey' = <<key>>
        /\ prev' = Rendered
        /\ measurePending' = (Rendered' # Rendered)
        /\ layout' = LayoutOf(Segments(value', cursorIndex', showCursor, focus,
                                       placeholder, mask, tabSize, highlight'))
        /\ lastScroll' = << >>
        /\ UNCHANGED <<showCursor, keyBindings, highlightPastedText, focus,
                       placeholder, mask, tabSize, effectPending, pending>>
        /\ UNCHANGED <<rows, maxRows, contentHeight, markerHeight, scrollOffset,
                       scrollPending>>

\* The owner renders the component with another maxRows.
CycleSetRows ==
    /\ ~measurePending
    /\ ~scrollPending
    /\ \E mr \in RowsProps \ {maxRows} :
          /\ maxRows' = mr
          /\ scrollPending' =
                DepsChanged(<<markerHeight, visibleRows, contentHeight>>,
                            <<markerHeight, VisibleRows(rows, mr, contentHeight),
                              contentHeight>>)
    /\ measurePending' = TRUE
    /\ lastScroll' = << >>
    /\ UNCHANGED <<rows, contentHeight, markerHeight, scrollOffset, layout,
                   renderVars, editVars>>

\* The effects of the two MeasureBox elements run: each measures its element
\* and reports a changed height, which renders the component again.
Measure ==
    /\ measurePending
    /\ \E reportContent \in {HeightChanged(contentHeight, layout.content)},
          reportMarker \in {HeightChanged(markerHeight, layout.marker)} :
          /\ contentHeight' = (IF reportContent THEN layout.content ELSE contentHeight)
          /\ markerHeight' = (IF reportMarker THEN layout.marker ELSE markerHeight)
          /\ measurePending' = (reportContent \/ reportMarker)
    /\ scrollPending' =
          (scrollPending \/
           DepsChanged(<<markerHeight, visibleRows, contentHeight>>,
                       <<markerHeight', VisibleRows(rows, maxRows, contentHeight'),
                         contentHeight'>>))
    /\ lastScroll' = << >>
    /\ UNCHANGED <<rows, maxRows, scrollOffset, layout, renderVars, editVars>>

\* The scroll effect runs, after the MeasureBox effects of its render; a new
\* offset renders the component again.
CycleRescroll ==
    /\ scrollPending
    /\ ~measurePending
    /\ scrollOffset' =
          NextScrollOffset(scrollOffset, visibleRows, markerHeight, contentHeight)
    /\ scrollPending' = FALSE
    /\ measurePending' = (scrollOffset' # scrollOffset)
    /\ lastScroll' = <<[s |-> scrollOffset, v |-> visibleRows,
                        m |-> markerHeight, h |-> contentHeight]>>
    /\ UNCHANGED <<rows, maxRows, contentHeight, markerHeight, layout, renderVars,
                   editVars>>

NextCycle ==
    \/ CycleKey
    \/ CycleSetRows
    \/ Measure
    \/ CycleRescroll

\* The component is mounted on an empty buffer with the default key bindings
\* and a cursor; the effects of the first render have not run.  The scroll
\* effect of the first render sees the heights 0 and returns the offset 0.
InitCycle ==
    /\ value = << >>
    /\ showCursor = TRUE
    /\ highlightPastedText = FALSE
    /\ keyBindings = DefaultBindings
    /\ focus = TRUE
    /\ placeholder = << >>
    /\ mask = << >>
    /\ tabSize = 4
    /\ cursorIndex = Len(value)
    /\ pasteLength = 0
    /\ highlight = PasteHighlight(highlightPastedText, cursorIndex, pasteLength)
    /\ effectPending = FALSE
    /\ pending = << >>
    /\ rows = << >>
    /\ maxRows \in RowsProps
    /\ contentHeight = 0
    /\ markerHeight = 0
    /\ scrollOffset = 0
    /\ scrollPending = FALSE
    /\ measurePending = TRUE
    /\ layout = LayoutOf(Segments(value, cursorIndex, showCursor, focus, placeholder,
                                  mask, tabSize, highlight))
    /\ lastScroll = << >>
    /\ lastKey = << >>
    /\ prev = Rendered
    /\ changes = << >>
    /\ submits = << >>

\* The effects of a render are run: React does not leave them waiting.
SpecCycle ==
    /\ InitCycle
    /\ [][NextCycle]_vars
    /\ WF_vars(Measure)
    /\ WF_vars(CycleRescroll)

----------------------------------------------------------------------------
(* Vocabulary of the properties: the last event, the state it was handled  *)
(* in, and the dispatch conditions as the specification words them.        *)

Handled == lastKey # << >>
K == lastKey[1]
V0 == prev.value
C0 == prev.cursorIndex
P0 == prev.pasteLength

\* v[0:c] + t + v[c:]
Spliced(v, c, t) ==
    [i \in 1..(Len(v) + Len(t)) |->
        IF i <= c THEN v[i]
        ELSE IF i <= c + Len(t) THEN t[i - c]
        ELSE v[i - Len(t)]]

\* v[0:c-1] + v[c:]
Removed(v, c) == [i \in 1..(Len(v) - 1) |-> IF i < c THEN v[i] ELSE v[i + 1]]

SubmitMatches(k) ==
    IF keyBindings.submit = "default" THEN k.return /\ k.ctrl ELSE k.return
NewlineMatches(k) ==
    IF keyBindings.newline = "default" THEN k.return ELSE k.return /\ k.shift
IgnoredControl(k) == k.tab \/ (k.ctrl /\ k.input = <<"c">>)
ArrowKey(k) == k.upArrow \/ k.downArrow \/ k.leftArrow \/ k.rightArrow
DeleteKey(k) == k.backspace \/ k.delete

\* The event reaches no branch before the arrows.
PastBindings(k) == ~SubmitMatches(k) /\ ~NewlineMatches(k) /\ ~IgnoredControl(k)
\* The event reaches the backspace/delete branch.
ReachesDelete(k) == PastBindings(k) /\ ~ArrowKey(k) /\ ~k.return /\ DeleteKey(k)
\* The event reaches the text insertion branch.
ReachesInsert(k) == PastBindings(k) /\ ~ArrowKey(k) /\ ~k.return /\ ~DeleteKey(k)

NoEffect ==
    /\ value = V0 /\ cursorIndex = C0 /\ pasteLength = P0
    /\ changes = << >> /\ submits = << >>

NewlineInserted ==
    /\ changes = <<Spliced(V0, C0, <<LF>>)>>
    /\ value = Spliced(V0, C0, <<LF>>)
    /\ cursorIndex = C0 + 1

----------------------------------------------------------------------------
(* C1: plain text insertion.  A key event with a non-empty payload t that  *)
(* matches no earlier branch, handled with buffer v and cursor c in        *)
(* 0..len(v), emits exactly one change, v[0:c] + t + v[c:], and sets the   *)
(* cursor to c + len(t).                                                   *)
C1_PlainTextInsertion ==
    (Handled /\ ReachesInsert(K) /\ K.input # << >> /\ C0 \in 0..Len(V0))
    => /\ changes = <<Spliced(V0, C0, K.input)>>
       /\ value = Spliced(V0, C0, K.input)
       /\ cursorIndex = C0 + Len(K.input)
       /\ submits = << >>

\* A two-character paste in the middle of a buffer.
C1_Witness ==
    /\ Handled /\ ReachesInsert(K) /\ Len(K.input) = 2
    /\ C0 > 0 /\ C0 < Len(V0)
    /\ changes # << >>

----------------------------------------------------------------------------
(* C2: newline binding.  With the default key bindings, a Return event     *)
(* without Ctrl emits v[0:c] + "\n" + v[c:], advances the cursor to c + 1  *)
(* and does not invoke the submit callback.                                *)
C2_NewlineBinding ==
    (Handled /\ keyBindings = DefaultBindings /\ K.return /\ ~K.ctrl
        /\ C0 \in 0..Len(V0))
    => NewlineInserted /\ submits = << >>

\* Return in the middle of a buffer, default bindings.
C2_Witness ==
    /\ Handled /\ keyBindings = DefaultBindings /\ K.return /\ ~K.ctrl
    /\ C0 > 0 /\ C0 < Len(V0)
    /\ Len(value) = Len(V0) + 1

----------------------------------------------------------------------------
(* C3: fallback Enter.  With a custom newline predicate that is false for  *)
(* a plain Return event, and no submit match, the event still inserts      *)
(* "\n" at the cursor and advances the cursor by 1.                        *)
PlainReturn(k) == k = Key({"return"}, k.input)

C3_FallbackEnter ==
    (Handled /\ keyBindings.newline # "default" /\ PlainReturn(K)
        /\ ~NewlineMatches(K) /\ ~SubmitMatches(K) /\ C0 \in 0..Len(V0))
    => NewlineInserted /\ submits = << >>

\* A plain Return under the custom Shift+Return binding, cursor inside the buffer.
C3_Witness ==
    /\ Handled /\ keyBindings.newline = "shiftReturn" /\ PlainReturn(K)
    /\ C0 < Len(V0)
    /\ Len(value) = Len(V0) + 1

----------------------------------------------------------------------------
(* C4: submit leaves the state untouched.  A key event that matches the    *)
(* submit predicate invokes the submit callback once with the current      *)
(* buffer, emits no change, and leaves buffer, cursor and last paste       *)
(* length as they were.                                                    *)
C4_SubmitFrame ==
    (Handled /\ SubmitMatches(K))
    => /\ submits = <<V0>>
       /\ changes = << >>
       /\ value = V0 /\ cursorIndex = C0 /\ pasteLength = P0

\* Ctrl+Return right after a paste, with the default bindings.
C4_Witness ==
    /\ Handled /\ keyBindings = DefaultBindings /\ SubmitMatches(K)
    /\ P0 > 1
    /\ submits # << >>

----------------------------------------------------------------------------
(* C5: dispatch is first-match-wins in the order submit > newline binding  *)
(* > ignored control key > arrow > fallback Return > backspace/delete >    *)
(* text insertion.  Every event has the effect of the first branch it      *)
(* matches and of no other: at most one callback is invoked, at most once, *)
(* and a key that matches both submit and newline submits only.            *)
C5_Dispatch ==
    Handled =>
        /\ Len(changes) + Len(submits) <= 1
        /\ IF SubmitMatches(K)
             THEN submits = <<V0>> /\ value = V0 /\ cursorIndex = C0
           ELSE IF NewlineMatches(K)
             THEN NewlineInserted
           ELSE IF IgnoredControl(K)
             THEN NoEffect
           ELSE IF ArrowKey(K)
             THEN changes = << >> /\ submits = << >> /\ value = V0
           ELSE IF K.return
             THEN NewlineInserted
           ELSE IF DeleteKey(K)
             THEN /\ submits = << >>
                  /\ \/ NoEffect
                     \/ changes = <<value>> /\ Len(value) = Len(V0) - 1
           ELSE /\ submits = << >>
                /\ IF K.input = << >> THEN NoEffect
                   ELSE changes = <<value>> /\ Len(value) = Len(V0) + Len(K.input)

\* Return bound to submit while it is also the newline key: the event submits.
C5_Witness ==
    /\ Handled /\ SubmitMatches(K) /\ NewlineMatches(K) /\ ~K.ctrl
    /\ submits = <<value>>

----------------------------------------------------------------------------
----------------------------------------------------------------------------
(* C7: line merge.  From "Line1\nLine2" with the cursor right after        *)
(* "Line1\n" (offset 6), two Backspace events, each handled with the       *)
(* buffer and cursor the previous one produced.                            *)
BackspaceKey == Key({"backspace"}, << >>)
Line1Line2Merged == <<"L", "i", "n", "e", "1", "L", "i", "n", "e", "2">>
LineLine2 == <<"L", "i", "n", "e", "L", "i", "n", "e", "2">>

\* The second of two Backspace events that started at offset 6 of "Line1\nLine2".
SecondBackspace ==
    /\ Handled /\ K = BackspaceKey /\ V0 = Line1Line2 /\ C0 = 6
    /\ lastKey' = <<BackspaceKey>>

\* C7 as claimed: after the two Backspace events the buffer is "Line1Line2".
C7_LineMergeTwice == [][SecondBackspace => value' = Line1Line2Merged]_vars

\* C7 as amended: the first Backspace removes the newline and leaves
\* "Line1Line2" with the cursor at 5; the second removes the "1" before the
\* cursor and leaves "LineLine2" with the cursor at 4.
C7_LineMergeOnce ==
    [][SecondBackspace =>
        /\ value = Line1Line2Merged /\ changes = <<Line1Line2Merged>> /\ cursorIndex = 5
        /\ value' = LineLine2 /\ changes' = <<LineLine2>> /\ cursorIndex' = 4]_vars

\* The state after the second Backspace.
C7_Witness ==
    /\ Handled /\ K = BackspaceKey
    /\ V0 = Line1Line2Merged /\ C0 = 5
    /\ value = LineLine2 /\ cursorIndex = 4

----------------------------------------------------------------------------
(* Logical lines, read off the buffer without the handler's loops: the     *)
(* newline positions of the normalized text.                               *)

Breaks(n) == {i \in 1..Len(n) : n[i] = LF}
LastLine(n) == Cardinality(Breaks(n))
\* The position of the j-th newline, j in 1..LastLine(n).
NthBreak(n, j) ==
    CHOOSE i \in Breaks(n) : Cardinality({b \in Breaks(n) : b < i}) = j - 1
\* Offset of the first character of line i, and the line's length.
StartOf(n, i) == IF i = 0 THEN 0 ELSE NthBreak(n, i)
EndOf(n, i) == IF i = LastLine(n) THEN Len(n) ELSE NthBreak(n, i + 1) - 1
LenOf(n, i) == EndOf(n, i) - StartOf(n, i)
\* toOffset: the sum of len(line_j) + 1 over the lines before i, plus the column.
ToOffset(n, i, col) == StartOf(n, i) + col

\* The text before the cursor, as it is displayed.
Before(v, c) == normalizeLineEndings(SubSeq(v, 1, c))
\* The line and the column the cursor is on.
CursorLine(v, c) == LastLine(Before(v, c))
CursorCol(v, c) == Len(Before(v, c)) - StartOf(Before(v, c), CursorLine(v, c))
\* The cursor sits between the "\r" and the "\n" of one line ending.
SplitsPair(v, c) == c > 0 /\ c < Len(v) /\ v[c] = CR /\ v[c + 1] = LF

UpEvent(k) == PastBindings(k) /\ k.upArrow
DownEvent(k) == PastBindings(k) /\ ~k.upArrow /\ k.downArrow
\* The last event was Up or Down, handled with the cursor on a line of the buffer.
VerticalCase ==
    /\ Handled /\ (UpEvent(K) \/ DownEvent(K))
    /\ C0 \in 0..Len(V0) /\ ~SplitsPair(V0, C0)

----------------------------------------------------------------------------
(* C8: vertical movement.  With showCursor true and the cursor on line i,  *)
(* column k, Up with i > 0 (Down with i < last line) moves the cursor to   *)
(* line i-1 (i+1) at column min(k, len(target line)), that is to the sum   *)
(* of len(line_j) + 1 over the lines before the target plus that column;   *)
(* the buffer is unchanged and no change is emitted.                       *)
C8_VerticalMovement ==
    (VerticalCase /\ showCursor)
    => LET n == normalizeLineEndings(V0)
           i == CursorLine(V0, C0)
           k == CursorCol(V0, C0)
       IN  /\ (UpEvent(K) /\ i > 0)
              => /\ cursorIndex = ToOffset(n, i - 1, Min(k, LenOf(n, i - 1)))
                 /\ value = V0 /\ changes = << >>
           /\ (DownEvent(K) /\ i < LastLine(n))
              => /\ cursorIndex = ToOffset(n, i + 1, Min(k, LenOf(n, i + 1)))
                 /\ value = V0 /\ changes = << >>

----------------------------------------------------------------------------
(* C9: vertical movement past the ends is a no-op.  For every buffer and   *)
(* every cursor in 0..len(buffer) on the first logical line, Up leaves the *)
(* cursor unchanged; for every cursor on the last logical line, Down       *)
(* leaves it unchanged; neither emits a change.                            *)
C9_VerticalNoOp ==
    VerticalCase
    => LET n == normalizeLineEndings(V0)
           i == CursorLine(V0, C0)
       IN  /\ (UpEvent(K) /\ i = 0)
              => cursorIndex = C0 /\ value = V0 /\ changes = << >>
           /\ (DownEvent(K) /\ i = LastLine(n))
              => cursorIndex = C0 /\ value = V0 /\ changes = << >>

----------------------------------------------------------------------------
(* C10: sticky column round trip.  Down from the end of a line that is     *)
(* longer than the line below, then Up.                                    *)

\* Offset c is the end of line i of the normalized text n, i is not the last
\* line, and line i is longer than line i + 1.
EndOfLongerLine(n, c, i) ==
    /\ i \in 0..(LastLine(n) - 1)
    /\ c = ToOffset(n, i, LenOf(n, i))
    /\ LenOf(n, i) > LenOf(n, i + 1)

\* The last event was Down and this step is Up.
DownThenUp ==
    /\ Handled /\ showCursor /\ DownEvent(K)
    /\ lastKey' # << >> /\ UpEvent(lastKey'[1])

\* C10 as claimed, on buffers whose only line ending is "\n": Down lands at
\* the end of the shorter line and Up returns the cursor to where it was.
C10_StickyRoundTrip ==
    [][DownThenUp =>
        \A i \in 0..MaxLen :
            (EndOfLongerLine(V0, C0, i) /\ \A j \in 1..Len(V0) : V0[j] # CR)
            => /\ cursorIndex = ToOffset(V0, i + 1, LenOf(V0, i + 1))
               /\ cursorIndex' = C0]_vars

\* C10 as amended, on the lines and offsets of the normalized buffer: Down
\* lands at the end of the shorter line, and Up then lands on the original
\* line at the shorter line's length, left of the original column.
C10_ClampedRoundTrip ==
    [][DownThenUp =>
        \A i \in 0..MaxLen :
            EndOfLongerLine(normalizeLineEndings(V0), C0, i)
            => /\ value = V0 /\ value' = V0
               /\ cursorIndex = ToOffset(normalizeLineEndings(V0), i + 1,
                                         LenOf(normalizeLineEndings(V0), i + 1))
               /\ cursorIndex' = ToOffset(normalizeLineEndings(V0), i,
                                          LenOf(normalizeLineEndings(V0), i + 1))
               /\ cursorIndex' < C0]_vars

\* Down has just moved the cursor from the end of a longer line to the end of
\* the shorter line below it.
C10_Witness ==
    /\ Handled /\ showCursor /\ DownEvent(K)
    /\ \E i \in 0..MaxLen :
          /\ EndOfLongerLine(normalizeLineEndings(V0), C0, i)
          /\ cursorIndex = ToOffset(normalizeLineEndings(V0), i + 1,
                                    LenOf(normalizeLineEndings(V0), i + 1))

----------------------------------------------------------------------------
(* C11: horizontal movement.  With showCursor true, Left sets the cursor   *)
(* to max(0, c - 1) and Right sets it to min(len(value), c + 1); neither   *)
(* changes the buffer nor emits a change, so Left at 0 and Right at        *)
(* len(value) leave the cursor where it is.                                *)
LeftEvent(k) == PastBindings(k) /\ ~k.upArrow /\ ~k.downArrow /\ k.leftArrow
RightEvent(k) ==
    PastBindings(k) /\ ~k.upArrow /\ ~k.downArrow /\ ~k.leftArrow /\ k.rightArrow

----------------------------------------------------------------------------
(* C12: navigation is disabled without a cursor.  When showCursor is       *)
(* false, every Up, Down, Left or Right key event leaves the buffer, the   *)
(* cursor offset and the last paste length unchanged, emits no change, and *)
(* is not inserted as text.                                                *)
C12_NoCursorNoNavigation ==
    (Handled /\ ~showCursor /\ PastBindings(K) /\ ArrowKey(K))
    => NoEffect

\* An arrow key with a payload, right after a paste.
C12_Witness ==
    /\ Handled /\ ~showCursor /\ PastBindings(K) /\ ArrowKey(K)
    /\ K.input # << >> /\ P0 > 1 /\ C0 > 0
    /\ value = V0 /\ pasteLength = P0

----------------------------------------------------------------------------
(* C13: ignored control keys.  A Tab, Shift+Tab or Ctrl+C key event that   *)
(* the submit and newline predicates do not match changes nothing: no      *)
(* change emitted, no submit, cursor and last paste length unchanged, and  *)
(* its payload is not inserted into the buffer.                            *)
C13_IgnoredControlKeys ==
    (Handled /\ ~SubmitMatches(K) /\ ~NewlineMatches(K)
        /\ (K.tab \/ (K.shift /\ K.tab) \/ (K.ctrl /\ K.input = <<"c">>)))
    => NoEffect

\* Ctrl+C, whose payload is "c", right after a paste.
C13_Witness ==
    /\ Handled /\ K = Key({"ctrl"}, <<"c">>)
    /\ P0 > 1 /\ V0 # << >>
    /\ value = V0 /\ pasteLength = P0

----------------------------------------------------------------------------
(* C14: cursor range invariant.  Starting with the cursor at len(initial   *)
(* value), after any sequence of key events in which the owner feeds every *)
(* emitted change back as the next buffer value, 0 <= cursor <= len(buffer)*)
(* in every state.                                                         *)
C14_CursorRange == cursorIndex >= 0 /\ cursorIndex <= Len(value)

\* Right with the cursor at the end of a buffer that ends in "\r\n".
C14_Witness ==
    /\ Handled /\ showCursor /\ RightEvent(K)
    /\ Len(V0) >= 2 /\ V0[Len(V0) - 1] = CR /\ V0[Len(V0)] = LF
    /\ C0 = Len(V0) /\ cursorIndex = Len(value)

----------------------------------------------------------------------------
(* C17: offset round trip.  For every buffer and every offset o with       *)
(* 0 <= o <= len(buffer), the (line, column) found by the locate loop of   *)
(* vertical movement maps back, by summing len(line_j) + 1 over the        *)
(* preceding lines plus the column, to exactly o; an offset on a newline   *)
(* boundary is attributed to the line that the newline terminates.         *)

\* The locate loop, as Up and Down run it on buffer v with the cursor at o.
Locate(v, o) == FindLine(SplitLines(normalizeLineEndings(v)), o, 0, 0)

RoundTrip(v, o) ==
    LET n  == normalizeLineEndings(v)
        at == Locate(v, o)
    IN  /\ LineStart(SplitLines(n), at.currentLineIndex) + at.col = o
        /\ (o < Len(n) /\ n[o + 1] = LF)
           => at.currentLineIndex = Cardinality({i \in 1..o : n[i] = LF})

\* Up or Down has run the loop on the buffer and cursor of the last event.
LocateRan == Handled /\ showCursor /\ (UpEvent(K) \/ DownEvent(K))

C17_OffsetRoundTrip ==
    (LocateRan /\ C0 \in 0..Len(V0)) => RoundTrip(V0, C0)

----------------------------------------------------------------------------
(* C18: paste-highlight derivation.  In every state the highlight range    *)
(* handed to the renderer is {start: max(0, cursor - lastPasteLength),     *)
(* end: cursor} if highlightPastedText is enabled and lastPasteLength > 1, *)
(* and is absent otherwise.                                                *)
C18_PasteHighlight ==
    IF highlightPastedText /\ pasteLength > 1
    THEN /\ highlight # << >>
         /\ highlight[1].end = cursorIndex
         /\ highlight[1].start =
               (IF cursorIndex - pasteLength >= 0 THEN cursorIndex - pasteLength ELSE 0)
    ELSE highlight = << >>

\* A paste has just been inserted with highlightPastedText enabled.
C18_Witness ==
    /\ Handled /\ highlightPastedText /\ ReachesInsert(K) /\ Len(K.input) > 1
    /\ pasteLength = Len(K.input)
    /\ highlight = <<[start |-> C0, end |-> C0 + Len(K.input)]>>

----------------------------------------------------------------------------
(* C15: external shrink clamp.  Whenever the owner replaces the buffer     *)
(* with a value shorter than the cursor offset, or ignores an emitted      *)
(* change so that the cursor runs ahead of the buffer, the cursor is       *)
(* eventually set to len(buffer), by the clamp effect of that render; and  *)
(* clamping is idempotent: the clamp leaves a cursor that is already in    *)
(* 0..len(buffer) unchanged.                                               *)
C15_ExternalShrinkClamp ==
    /\ (cursorIndex > Len(value)) ~> (cursorIndex = Len(value))
    /\ [][(effectPending /\ cursorIndex > Len(value))
            => (cursorIndex' = Len(value) /\ value' = value)]_vars
    /\ [][(effectPending /\ cursorIndex \in 0..Len(value))
            => (cursorIndex' = cursorIndex /\ ~effectPending')]_vars

\* The owner replaced the buffer with a shorter one, the cursor was past its
\* end, and the effect has set the cursor to the end of the new buffer.
C15_Witness ==
    /\ lastKey = << >> /\ prev.value = value
    /\ prev.cursorIndex > Len(value)
    /\ cursorIndex = Len(value)
    /\ ~effectPending

----------------------------------------------------------------------------
(* Vocabulary of the segmenter's properties.                               *)

\* The segments the current props would give with the cursor at offset c.
SegmentsAt(c) ==
    Segments(value, c, showCursor, focus, placeholder, mask, tabSize, highlight)

\* The cursor offset clamped to 0..len(buffer).
Clamped(c) == IF c < 0 THEN 0 ELSE IF c > Len(value) THEN Len(value) ELSE c

SegmentsOfType(segs, type) == {i \in 1..Len(segs) : segs[i].type = type}

----------------------------------------------------------------------------
(* C16: out-of-range cursor in the display-only component.  For any        *)
(* non-empty buffer and any supplied cursorIndex that is negative or       *)
(* greater than len(buffer), the segmenter produces the same pre-cursor    *)
(* and post-cursor segments as for the cursor clamped to 0 or to           *)
(* len(buffer) respectively.                                               *)
C16_OutOfRangeCursor ==
    (value # << >> /\ (cursorIndex < 0 \/ cursorIndex > Len(value)))
    => /\ preCursor = SegmentsAt(Clamped(cursorIndex)).preCursor
       /\ postCursor = SegmentsAt(Clamped(cursorIndex)).postCursor

----------------------------------------------------------------------------
(* C19: empty-buffer rendering.  For the empty buffer, if the placeholder  *)
(* is non-empty and focus is false the segmenter emits exactly one         *)
(* placeholder segment and no post-cursor segments; in every other case,   *)
(* whatever showCursor is, it emits exactly one cursor segment containing  *)
(* a single space and no post-cursor segments.                             *)
C19_EmptyBuffer ==
    value = << >>
    => /\ postCursor = << >>
       /\ Len(preCursor) = 1
       /\ IF placeholder # << >> /\ ~focus
          THEN preCursor[1].type = "placeholder"
          ELSE preCursor[1] = [value |-> <<SPACE>>, type |-> "cursor"]

\* The empty buffer, unfocused, with a placeholder and showCursor off.
C19_Witness ==
    /\ value = << >> /\ placeholder # << >> /\ ~focus /\ ~showCursor
    /\ SegmentsOfType(preCursor, "placeholder") = {1}

----------------------------------------------------------------------------
(* C20: unfocused rendering.  For every non-empty buffer with focus false, *)
(* whatever the values of cursorIndex, showCursor and the explicit         *)
(* highlight range, the segmenter emits exactly one plain segment equal to *)
(* the formatted whole buffer, with no cursor segment and no highlight     *)
(* segment.                                                                *)
C20_Unfocused ==
    (value # << >> /\ ~focus)
    => /\ preCursor \o postCursor =
             <<[value |-> formatText(value, FALSE, mask, tabSize), type |-> "plain"]>>
       /\ SegmentsOfType(preCursor \o postCursor, "cursor") = {}
       /\ SegmentsOfType(preCursor \o postCursor, "highlight") = {}

\* Unfocused, with a cursor inside the buffer and a valid highlight range.
C20_Witness ==
    /\ value # << >> /\ ~focus /\ showCursor
    /\ cursorIndex > 0 /\ cursorIndex < Len(value)
    /\ hasValidHighlight(value, highlight)
    /\ Len(preCursor) = 1

----------------------------------------------------------------------------
(* More vocabulary of the segmenter's properties.                          *)

\* The texts of the segments of the given types, concatenated in order.
RECURSIVE TextOf(_, _)
TextOf(segs, types) ==
    IF segs = << >> THEN << >>
    ELSE (IF Head(segs).type \in types THEN Head(segs).value ELSE << >>)
         \o TextOf(Tail(segs), types)

Shown == {"plain", "highlight"}

\* The buffer is rendered focused with the cursor inside it.
FocusedInRange == focus /\ value # << >> /\ cursorIndex \in 0..Len(value)

\* The formatted text before and after the cursor.
FormattedBefore == formatText(SubSeq(value, 1, cursorIndex), FALSE, mask, tabSize)
FormattedAfter == formatText(SubSeq(value, cursorIndex + 1, Len(value)), FALSE, mask, tabSize)

\* The number of characters of t before its first newline, or len(t).
UpToBreak(t) ==
    IF \A i \in 1..Len(t) : t[i] # LF THEN Len(t)
    ELSE (CHOOSE i \in 1..Len(t) : t[i] = LF /\ \A j \in 1..(i - 1) : t[j] # LF) - 1

\* The number of characters of t up to and including its last newline, or 0.
ThroughLastBreak(t) ==
    IF \A i \in 1..Len(t) : t[i] # LF THEN 0
    ELSE CHOOSE i \in 1..Len(t) : t[i] = LF /\ \A j \in (i + 1)..Len(t) : t[j] # LF

----------------------------------------------------------------------------
(* C21: current-line highlight.  Focused, with no valid explicit           *)
(* highlight, the highlight segments cover exactly the whole logical line  *)
(* containing the cursor, from the character after the last newline before *)
(* the cursor up to the first newline after the cursor or, when there is   *)
(* none, up to the full end of the text; every character outside that line *)
(* is plain.                                                               *)
C21_CurrentLineHighlight ==
    (FocusedInRange /\ ~hasValidHighlight(value, highlight))
    => /\ TextOf(preCursor, {"highlight"}) =
             SubSeq(FormattedBefore, ThroughLastBreak(FormattedBefore) + 1,
                    Len(FormattedBefore))
       /\ TextOf(postCursor, {"highlight"}) =
             SubSeq(FormattedAfter, 1, UpToBreak(FormattedAfter))
       /\ TextOf(preCursor, {"plain"}) =
             SubSeq(FormattedBefore, 1, ThroughLastBreak(FormattedBefore))
       /\ TextOf(postCursor, {"plain"}) =
             SubSeq(FormattedAfter, UpToBreak(FormattedAfter) + 1, Len(FormattedAfter))

----------------------------------------------------------------------------
(* C22: segment concatenation.  For every focused non-empty buffer and     *)
(* every cursor in 0..len(buffer), the texts of all pre-cursor and         *)
(* post-cursor segments in order, without the cursor segment, reproduce    *)
(* the formatted whole buffer, and the cursor segment sits exactly after   *)
(* the formatted prefix buffer[0:cursor].                                  *)
C22_SegmentConcatenation ==
    FocusedInRange
    => /\ TextOf(preCursor \o postCursor, Shown) =
             formatText(value, FALSE, mask, tabSize)
       /\ TextOf(preCursor, Shown) = FormattedBefore
       /\ SegmentsOfType(preCursor \o postCursor, "cursor") = {Len(preCursor)}

----------------------------------------------------------------------------
(* C23: highlight fallback.  An explicit highlight range that is invalid   *)
(* (end <= start, start < 0, or end > len(buffer)) produces, for every     *)
(* buffer and cursor, exactly the segment sequence of no highlight at all. *)
InvalidRange ==
    /\ highlight # << >>
    /\ \/ highlight[1].end <= highlight[1].start
       \/ highlight[1].start < 0
       \/ highlight[1].end > Len(value)

WithoutHighlight ==
    Segments(value, cursorIndex, showCursor, focus, placeholder, mask, tabSize, << >>)

C23_HighlightFallback ==
    InvalidRange
    => /\ preCursor = WithoutHighlight.preCursor
       /\ postCursor = WithoutHighlight.postCursor

\* Focused, a range that starts inside the buffer and ends past it, and the
\* current line is what is highlighted.
C23_Witness ==
    /\ FocusedInRange /\ highlight # << >>
    /\ highlight[1].start = 0 /\ highlight[1].end = Len(value) + 1
    /\ Len(preCursor) = 3 /\ preCursor[2].type = "highlight"

----------------------------------------------------------------------------
(* C24: mask exclusivity.  When a mask character is set, in every          *)
(* non-placeholder segment each non-newline character of the normalized    *)
(* text is replaced by exactly one mask character, newlines are kept, no   *)
(* original character of the buffer appears in the output, and tabs are    *)
(* masked rather than expanded.                                            *)

Count(t, ch) == Cardinality({i \in 1..Len(t) : t[i] = ch})

\* Text t shows the normalized text n masked: nothing but mask characters and
\* newlines, one mask character for each non-newline character of n, and
\* every newline of n.
MaskOf(t, n) ==
    /\ \A i \in 1..Len(t) : t[i] \in {mask[1], LF}
    /\ Count(t, mask[1]) = Len(n) - Count(n, LF)
    /\ Count(t, LF) >= Count(n, LF)

C24_MaskExclusivity ==
    (Len(mask) = 1 /\ value # << >>)
    => /\ \A i \in 1..Len(preCursor \o postCursor) :
             LET seg == (preCursor \o postCursor)[i]
             IN  seg.type \in Shown
                 => \A j \in 1..Len(seg.value) : seg.value[j] \in {mask[1], LF}
       /\ ~focus
          => MaskOf(TextOf(preCursor \o postCursor, Shown), normalizeLineEndings(value))
       /\ FocusedInRange
          => /\ MaskOf(TextOf(preCursor, Shown),
                       normalizeLineEndings(SubSeq(value, 1, cursorIndex)))
             /\ MaskOf(TextOf(postCursor, Shown),
                       normalizeLineEndings(SubSeq(value, cursorIndex + 1, Len(value))))

\* A masked buffer that holds a tab and a line ending, focused, with the
\* cursor between them.
C24_Witness ==
    /\ Len(mask) = 1 /\ FocusedInRange
    /\ value = <<TAB, CR>> /\ cursorIndex = 1
    /\ TextOf(preCursor, Shown) = mask /\ TextOf(postCursor, Shown) = <<LF>>

----------------------------------------------------------------------------
(* The viewport: visibleRows and the scroll recomputation, under SpecView. *)

\* The measurements of the last scroll recomputation, while they are current.
Rescrolled == lastScroll # << >>
S0 == lastScroll[1].s
V0r == lastScroll[1].v
M0 == lastScroll[1].m
H0 == lastScroll[1].h

\* The cursor row m is inside the window of v rows that starts after row s.
InWindow(s, v, m) == s < m /\ m <= s + v

\* C25 as stated: visibleRows is at least the configured rows, at most the
\* configured maxRows, and at least 1, rows > maxRows included.
C25_VisibleRowBounds ==
    /\ visibleRows >= 1
    /\ rows # << >> => visibleRows >= rows[1]
    /\ maxRows # << >> => visibleRows <= maxRows[1]

\* C25 amended: for positive rows and maxRows, visibleRows is at least 1 and
\* at least rows; it is at most maxRows when rows is undefined or not above
\* maxRows, and it is rows when rows is above maxRows.
C25_VisibleRowBoundsOrdered ==
    /\ visibleRows >= 1
    /\ rows # << >> => visibleRows >= rows[1]
    /\ (maxRows # << >> /\ (rows = << >> \/ rows[1] <= maxRows[1]))
          => visibleRows <= maxRows[1]
    /\ (maxRows # << >> /\ rows # << >> /\ rows[1] > maxRows[1])
          => visibleRows = rows[1]

\* rows is above maxRows and the content is higher than both.
C25_Witness ==
    /\ rows # << >>
    /\ maxRows # << >>
    /\ rows[1] > maxRows[1]
    /\ contentHeight > rows[1]
    /\ visibleRows = rows[1]

\* C26: right after a scroll recomputation made with
\* 1 <= markerHeight <= contentHeight, the cursor row is inside the window:
\* scrollOffset < markerHeight <= scrollOffset + visibleRows.
C26_CursorStaysInView ==
    (Rescrolled /\ 1 <= M0 /\ M0 <= H0) => InWindow(scrollOffset, V0r, M0)

\* The cursor was above the window and is now its top row.
C26_Witness ==
    /\ Rescrolled
    /\ 1 <= M0
    /\ M0 <= H0
    /\ M0 <= S0
    /\ scrollOffset = M0 - 1

\* The heights 1 <= markerHeight <= contentHeight are reported and the scroll
\* effect has not run yet.
Measured ==
    /\ scrollPending
    /\ 1 <= markerHeight
    /\ markerHeight <= contentHeight

\* The 5-line buffer with the cursor at its end, maxRows = 2, not scrolled.
FiveLines ==
    /\ rows = << >>
    /\ maxRows = <<2>>
    /\ markerHeight = 5
    /\ contentHeight = 5

\* C27: once the heights of the new segments are reported, the viewport
\* reaches a state where the cursor row is visible; for 5 lines, maxRows = 2
\* and the cursor at the end, the offset becomes 3.
C27_EventualVisibility ==
    /\ Measured ~> (~scrollPending /\ InWindow(scrollOffset, visibleRows, markerHeight))
    /\ (Measured /\ FiveLines /\ scrollOffset = 0)
          ~> (~scrollPending /\ FiveLines /\ scrollOffset = 3)

\* The 5-line example has been scrolled from offset 0 to offset 3.
C27_Witness ==
    /\ Rescrolled
    /\ FiveLines
    /\ S0 = 0
    /\ scrollOffset = 3

\* C28: visibleRows is max(rows ?? maxRows ?? 1, min(maxRows ?? rows ?? 1, h)):
\* 1 with neither prop, the prop with one, max(rows, min(maxRows, h)) with both.
C28_VisibleRowFormula ==
    visibleRows =
      CASE rows = << >> /\ maxRows = << >> -> 1
        [] rows # << >> /\ maxRows = << >> -> Max(rows[1], Min(rows[1], contentHeight))
        [] rows = << >> /\ maxRows # << >> -> Max(maxRows[1], Min(maxRows[1], contentHeight))
        [] OTHER -> Max(rows[1], Min(maxRows[1], contentHeight))

\* Both props are set and the content height between them is what is shown.
C28_Witness ==
    /\ rows # << >>
    /\ maxRows # << >>
    /\ rows[1] < contentHeight
    /\ contentHeight <= maxRows[1]
    /\ visibleRows = contentHeight

\* The policy as stated: inside the window, 0 if h < v, h - v if
\* v <= h < s + v, and s otherwise.
StatedPolicy(s, v, m, h) ==
    CASE m <= s -> Max(0, m - 1)
      [] m > s /\ m > s + v -> m - v
      [] InWindow(s, v, m) /\ h < v -> 0
      [] InWindow(s, v, m) /\ v <= h /\ h < s + v -> h - v
      [] OTHER -> s

\* The policy with a content height of 0 taken as not measured.
MeasuredPolicy(s, v, m, h) ==
    CASE m <= s -> Max(0, m - 1)
      [] m > s /\ m > s + v -> m - v
      [] InWindow(s, v, m) /\ h = 0 -> s
      [] InWindow(s, v, m) /\ 0 < h /\ h < v -> 0
      [] InWindow(s, v, m) /\ v <= h /\ h < s + v -> h - v
      [] OTHER -> s

\* C29 as stated: the new offset is max(0, m - 1) if m <= s; else m - v if
\* m > s + v; else 0 if h < v, h - v if v <= h < s + v, and s otherwise.
C29_ScrollPolicy ==
    Rescrolled => scrollOffset = StatedPolicy(S0, V0r, M0, H0)

\* C29 amended: as stated, except that with the cursor inside the window and
\* a content height of 0 the offset is left unchanged.
C29_ScrollPolicyMeasured ==
    Rescrolled => scrollOffset = MeasuredPolicy(S0, V0r, M0, H0)

\* The cursor is inside a scrolled window, the content height is 0 and the
\* offset is kept.
C29_Witness ==
    /\ Rescrolled
    /\ H0 = 0
    /\ S0 >= 1
    /\ InWindow(S0, V0r, M0)
    /\ scrollOffset = S0

\* C30: the recomputation converges in one step: applied again to the same
\* measurements it returns the offset it has just returned.
C30_OneStepConvergence ==
    Rescrolled => NextScrollOffset(scrollOffset, V0r, M0, H0) = scrollOffset

\* C31: in every reachable state, whatever heights >= 0 were reported and
\* whatever rows and maxRows were configured, scrollOffset is an integer >= 0.
C31_ScrollOffsetNonNegative == scrollOffset \in Nat

\* A marker height of 0 was reported to a scrolled window: the offset is 0.
C31_Witness ==
    /\ Rescrolled
    /\ M0 = 0
    /\ S0 > 0
    /\ scrollOffset = 0

----------------------------------------------------------------------------
(* Key events delivered back to back, under SpecBatch.                     *)

\* A key event has just been handled and has left queued updates.
Delivered ==
    /\ pending' # << >>
    /\ <<pending, lastKey, prev, changes, submits>>' #
          <<pending, lastKey, prev, changes, submits>>

\* What key event k makes of the state st when it is interpreted against st.
AppliedTo(st, k) ==
    LET out == HandleInput(st.value, st.cursorIndex, st.pasteLength, showCursor,
                           keyBindings, k)
    IN  [value |-> NextValue(st.value, out),
         cursorIndex |-> out.cursorIndex,
         pasteLength |-> out.pasteLength]

\* C33: every key event is interpreted against the buffer and cursor that
\* resulted from the previous key event: the state after the event is the
\* handler's outcome on the state before it, so that two Left arrows from
\* cursor 3 give cursor 1.
C33_SequentialEvents ==
    [][Delivered => Latest' = AppliedTo(Latest, lastKey'[1])]_vars

----------------------------------------------------------------------------
(* The explicit highlight range and the cursor glyph, under SpecRender.    *)

\* The buffer is rendered focused with a valid explicit range and the cursor
\* inside the buffer.
FocusedWithRange ==
    /\ focus
    /\ hasValidHighlight(value, highlight)
    /\ cursorIndex \in 0..Len(value)

\* The raw characters with index in [a, b), as they are displayed.
Piece(a, b) == formatText(SubSeq(value, a + 1, b), FALSE, mask, tabSize)

\* The text segments that show something, in order.
Visible(segs) == SelectSeq(segs, LAMBDA x : x.type # "cursor" /\ x.value # << >>)

\* C34: focused, with a valid explicit range [start, end) and the cursor in
\* [0, len(buffer)], the characters with index in [start, end) are in
\* highlight segments and all others in plain segments, each once and in
\* buffer order, those before the cursor in the pre-cursor group and the
\* rest in the post-cursor group.
C34_HighlightPartition ==
    FocusedWithRange
    => LET s == highlight[1].start
           e == highlight[1].end
           c == cursorIndex
       IN  /\ Visible(preCursor) =
                 Visible(<< Segment(Piece(0, Min(s, c)), "plain"),
                            Segment(Piece(Min(s, c), Min(e, c)), "highlight"),
                            Segment(Piece(Min(e, c), c), "plain") >>)
           /\ Visible(postCursor) =
                 Visible(<< Segment(Piece(c, Max(s, c)), "plain"),
                            Segment(Piece(Max(s, c), Max(e, c)), "highlight"),
                            Segment(Piece(Max(e, c), Len(value)), "plain") >>)

\* The cursor is inside the range: part of the highlight is before it and
\* part after it.
C34_Witness ==
    /\ FocusedWithRange
    /\ highlight[1].start < cursorIndex
    /\ cursorIndex < highlight[1].end
    /\ TextOf(preCursor, {"highlight"}) # << >>
    /\ TextOf(postCursor, {"highlight"}) # << >>

\* The cursor segments of the render: the last segment of the pre-cursor
\* group is the only one, and t is its text.
CursorSegmentIs(t) ==
    /\ SegmentsOfType(preCursor, "cursor") = {Len(preCursor)}
    /\ SegmentsOfType(postCursor, "cursor") = {}
    /\ preCursor[Len(preCursor)].value = t

\* C35: focused on a non-empty buffer, the cursor segment of the
\* current-line branch is one space when showCursor is true and empty when it
\* is false; the cursor segment of the valid-explicit-highlight branch is one
\* space whatever showCursor is; in both it is inserted once, between the
\* pre-cursor and the post-cursor text.
C35_CursorGlyph ==
    (focus /\ value # << >>)
    => IF hasValidHighlight(value, highlight)
       THEN CursorSegmentIs(<<SPACE>>)
       ELSE CursorSegmentIs(IF showCursor THEN <<SPACE>> ELSE << >>)

\* An explicit range is rendered with showCursor false and shows the glyph.
C35_Witness ==
    /\ focus
    /\ ~showCursor
    /\ hasValidHighlight(value, highlight)
    /\ CursorSegmentIs(<<SPACE>>)

----------------------------------------------------------------------------
(* Tab expansion, under SpecRender.                                        *)

\* All the text the render shows, the cursor glyph aside.
ShownText == TextOf(preCursor \o postCursor, Shown)

\* The buffer is shown whole: unfocused, or focused with the cursor inside it.
BufferShown == value # << >> /\ (~focus \/ cursorIndex \in 0..Len(value))

\* The placeholder is shown.
PlaceholderShown == value = << >> /\ placeholder # << >> /\ ~focus

\* Unmasked buffer text has every tab replaced by tabSize spaces; masked
\* buffer text has one mask character per tab, and no space.
BufferTabs ==
    BufferShown
    => /\ Count(ShownText, TAB) = 0
       /\ IF mask = << >>
          THEN Count(ShownText, SPACE) = tabSize * Count(value, TAB)
          ELSE Count(ShownText, SPACE) = 0

\* C36 as stated: tabs become tabSize spaces exactly in text that is neither
\* masked nor placeholder; the placeholder is emitted verbatim.
C36_TabExpansionScope ==
    /\ BufferTabs
    /\ PlaceholderShown => TextOf(preCursor, {"placeholder"}) = placeholder

\* C36 amended: tabs become tabSize spaces in unmasked buffer text and in
\* the placeholder; masked text is not expanded; the placeholder is never
\* masked, and is emitted with its line endings normalized and its tabs
\* expanded.
C36_TabExpansionPlaceholder ==
    /\ BufferTabs
    /\ PlaceholderShown
         => TextOf(preCursor, {"placeholder"}) =
                expandTabs(normalizeLineEndings(placeholder), tabSize)

\* A placeholder with a tab is shown under a mask: its tab is tabSize spaces
\* and its other characters are not masked.
C36_Witness ==
    /\ PlaceholderShown
    /\ mask # << >>
    /\ Count(placeholder, TAB) = 1
    /\ Count(TextOf(preCursor, {"placeholder"}), SPACE) = tabSize
    /\ Count(TextOf(preCursor, {"placeholder"}), "p") = 1

----------------------------------------------------------------------------
(* Paste tracking, under Spec.                                             *)

\* The event inserts a newline: through the newline binding or through the
\* fallback Return branch.
InsertsNewline(k) ==
    /\ ~SubmitMatches(k)
    /\ NewlineMatches(k) \/ (~IgnoredControl(k) /\ ~ArrowKey(k) /\ k.return)

\* The last event was an arrow key that reached its branch.
ArrowEvent == PastBindings(K) /\ ArrowKey(K)

\* The last event was Up with the cursor on the first line, or Down with the
\* cursor on the last line.
PastTheEnds ==
    /\ VerticalCase
    /\ \/ UpEvent(K) /\ CursorLine(V0, C0) = 0
       \/ DownEvent(K) /\ CursorLine(V0, C0) = LastLine(normalizeLineEndings(V0))

PasteTracked ==
    /\ (ReachesInsert(K) /\ K.input # << >>)
          => pasteLength = (IF Len(K.input) > 1 THEN Len(K.input) ELSE 0)
    /\ InsertsNewline(K) => pasteLength = 0
    /\ (ArrowEvent /\ showCursor /\ cursorIndex # C0) => pasteLength = 0
    /\ (ReachesDelete(K) /\ C0 > 0) => pasteLength = 0
    /\ SubmitMatches(K) => pasteLength = P0
    /\ (~SubmitMatches(K) /\ ~NewlineMatches(K) /\ IgnoredControl(K))
          => pasteLength = P0
    /\ (ArrowEvent /\ ~showCursor) => pasteLength = P0
    /\ (PastTheEnds /\ showCursor) => pasteLength = P0
    /\ (ReachesDelete(K) /\ C0 = 0) => pasteLength = P0

\* C37: after an insertion of n characters pasteLength is n if n > 1 and 0
\* if n = 1; after a newline insertion, a cursor move that takes effect or a
\* deletion that takes effect it is 0; submit, ignored keys, arrows with
\* showCursor false, Up on the first line, Down on the last line and
\* backspace at offset 0 leave it unchanged.
C37_PasteTracking == Handled => PasteTracked

----------------------------------------------------------------------------
(* Raw and normalized offsets, under Spec.                                 *)

\* The offset in the normalized buffer of the raw offset c of buffer v.
NormalOffset(v, c) == Len(Before(v, c))

\* What the handler makes of the last event when it is given the normalized
\* buffer and the cursor's offset in it.
OnNormalized ==
    HandleInput(normalizeLineEndings(V0), NormalOffset(V0, C0), P0, showCursor,
                keyBindings, K)

\* C38: the handler's offsets refer to the normalized buffer: for every raw
\* buffer, handling an event on the raw buffer and cursor gives, once
\* normalized, the buffer and the cursor position that handling it on the
\* normalized buffer gives, so that Up and Down locate the line the
\* insertions and deletions splice into, and stay no-ops past the ends.
C38_NormalizedOffsets ==
    (Handled /\ ~SplitsPair(V0, C0))
    => LET n == NextValue(normalizeLineEndings(V0), OnNormalized)
       IN  /\ normalizeLineEndings(value) = normalizeLineEndings(n)
           /\ NormalOffset(value, cursorIndex) = NormalOffset(n, OnNormalized.cursorIndex)

----------------------------------------------------------------------------
(* The paste highlight and the pasted text, under Spec.                    *)

\* The last event inserted a paste: a payload of more than one character.
Pasted == Handled /\ ReachesInsert(K) /\ Len(K.input) > 1

\* The characters of the buffer in [cursor - pasteLength, cursor).
Tracked == SubSeq(value, cursorIndex - pasteLength + 1, cursorIndex)

\* While a paste is tracked the range is inside the buffer, and right after
\* the paste it holds the pasted text.
PasteCovered ==
    pasteLength > 1
    => /\ cursorIndex >= pasteLength
       /\ cursorIndex <= Len(value)
       /\ hasValidHighlight(value, <<[start |-> cursorIndex - pasteLength,
                                       end |-> cursorIndex]>>)
       /\ Pasted => Tracked = K.input

\* An event that is not a paste and leaves a paste tracked leaves the buffer,
\* the cursor and the tracked length as they are.
PasteKept ==
    (pasteLength' > 1 /\ ~Pasted')
    => /\ value' = value
       /\ cursorIndex' = cursorIndex
       /\ pasteLength' = pasteLength

\* C39: in every state reachable by key events with the owner feeding each
\* change back, if pasteLength > 1 then cursor >= pasteLength, the range
\* [cursor - pasteLength, cursor) is a valid highlight range, and it holds
\* exactly the text of the most recent insertion.
C39_PasteHighlightCovers == []PasteCovered /\ [][PasteKept]_vars

\* A paste in the middle of the buffer is still tracked after a key that
\* does nothing.
C39_Witness ==
    /\ Handled /\ ~Pasted
    /\ pasteLength > 1
    /\ cursorIndex < Len(value)
    /\ cursorIndex > pasteLength
    /\ Tracked = <<CR, LF>>
----------------------------------------------------------------------------
(* The scroll offset in the whole component, under SpecCycle.              *)

\* No effect of the last render is waiting: the next step is a key event or
\* a new prop.
Quiet == ~measurePending /\ ~scrollPending

\* The dependencies of the scroll effect.
ScrollDeps == <<markerHeight, visibleRows, contentHeight>>

\* A step that changes the offset is the scroll effect, run on the heights
\* the component holds.
OffsetFromRescroll ==
    scrollOffset' # scrollOffset
    => /\ scrollPending
       /\ ~scrollPending'
       /\ lastScroll' = <<[s |-> scrollOffset, v |-> visibleRows,
                           m |-> markerHeight, h |-> contentHeight]>>
       /\ scrollOffset' =
             NextScrollOffset(scrollOffset, visibleRows, markerHeight, contentHeight)

\* The scroll effect becomes pending only when one of its dependencies
\* changes.
RescrollOnDeps == (~scrollPending /\ scrollPending') => ScrollDeps' # ScrollDeps

\* A key event or a new prop leaves the offset alone, and so does a step
\* taken while a measurement is awaited.
OffsetKept == (Quiet \/ measurePending) => scrollOffset' = scrollOffset

\* C32: a key event, a buffer change or a cursor change alone leaves
\* scrollOffset unchanged; scrollOffset is modified only by the
\* recomputation that runs when a reported markerHeight, contentHeight or
\* the derived visibleRows changes, so while a measurement is awaited the
\* previous offset stays in effect.
C32_OffsetOnlyOnMeasurement ==
    [][OffsetFromRescroll /\ RescrollOnDeps /\ OffsetKept]_vars

\* A key event moved the cursor out of the viewport and the scroll effect
\* has just given a new offset.
C32_Witness ==
    /\ Handled
    /\ Rescrolled
    /\ scrollOffset # lastScroll[1].s
    /\ measurePending

----------------------------------------------------------------------------
(* The end of the render and measure cycle, under SpecCycle.               *)

\* The heights the component holds are the heights of what it shows.
HeightsCurrent ==
    [content |-> contentHeight, marker |-> markerHeight]
      = LayoutOf([preCursor |-> preCursor, postCursor |-> postCursor])

\* Once no effect is waiting, the heights and the offset stay as they are.
Settled ==
    Quiet => <<contentHeight, markerHeight, scrollOffset>>'
               = <<contentHeight, markerHeight, scrollOffset>>

\* A measurement that finds the heights already reported changes nothing
\* and makes no effect pending.
SameHeightIgnored ==
    (measurePending /\ layout = [content |-> contentHeight, marker |-> markerHeight])
    => /\ <<contentHeight, markerHeight, scrollOffset>>'
            = <<contentHeight, markerHeight, scrollOffset>>
       /\ ~measurePending'
       /\ scrollPending' = scrollPending

\* C40: after a key event or a prop change, with the layout engine
\* reporting the heights of the current content and marker, the cycle of
\* measurements and scroll recomputations ends: within finitely many steps
\* no effect is waiting and contentHeight, markerHeight and scrollOffset
\* stop changing, and a height equal to the last reported one triggers no
\* further update.
C40_CycleQuiesces ==
    /\ ~Quiet ~> Quiet
    /\ [](Quiet => HeightsCurrent)
    /\ [][Settled /\ SameHeightIgnored]_vars

\* The cycle that followed a key event has ended on a scrolled viewport.
C40_Witness ==
    /\ Handled
    /\ Quiet
    /\ HeightsCurrent
    /\ scrollOffset > 0
    /\ contentHeight > visibleRows
====
